---- MODULE Spec2Model ----
(***************************************************************************)
(* Storage-volume lifecycle and recovery subsystem.                        *)
(*                                                                         *)
(* The module holds one state machine per part of the subsystem, each with *)
(* its own specification over the shared variables:                        *)
(*   SpecRecover  the recover scan / import request (internalRecoverScan)  *)
(*   SpecVolumes  create, copy, rename, move, migrate and delete requests  *)
(*                on custom volumes (storage_volumes.go)                   *)
(*   SpecNames    the name of a snapshot created without a name            *)
(*   SpecSched    the snapshot scheduler of the cluster members            *)
(*   SpecUpdate   PUT, PATCH and DELETE requests on one volume             *)
(*   SpecCreate   creation from an ISO upload or a migration source        *)
(*   SpecLoops    the prune loop and the creation loop of the scheduler    *)
(***************************************************************************)
EXTENDS Integers, Sequences, FiniteSets, TLC

VARIABLES
    \* ---- recover request (internalRecoverScan)
    userPools,          \* request body: the pools described by the user
    validateOnly,       \* request flag
    serverClustered,    \* s.ServerClustered
    dbPools,            \* catalog: storage pool rows
    dbRows,             \* catalog: volume, bucket, instance and snapshot rows
    mounted,            \* pools currently mounted on this member
    pools,              \* map pool name -> id of the pool handle
    ourMounts,          \* deferred unmount closures, in registration order
    poolsProjectVols,   \* map pool name -> unknown volumes found on the pool
    res,                \* ValidateResult being built
    reverter,           \* stack of undo hooks
    driverState,        \* on-disk effects of ImportInstance and SetInstanceQuota
    rec,                \* position of the request in its code
    response,           \* response of the request, "none" while it runs
    hist,               \* history of the request (observation only)
    \* ---- custom volume requests (storage_volumes.go)
    volumes,            \* catalog: custom volume rows
    devices,            \* instance -> the custom volume its disk device names
    running,            \* instances that are running
    cluster,            \* cluster configuration of the deployment
    reqs,               \* request slot -> the request it is serving
    \* ---- snapshot names (storage_volumes_snapshot.go)
    naming,             \* the derivation of one snapshot name
    \* ---- snapshot scheduler (storage_volumes_snapshot.go)
    sconf,              \* members, their online lists, the volume, first snapshots
    snapshots,          \* catalog: snapshot rows of the volume
    ticks,              \* member -> position of its running tick
    log,                \* what each tick saw and did, in order of start
    minute,             \* wall clock, in minutes
    \* ---- update and delete of one volume (storage_volumes.go)
    stored,             \* catalog: the row of the volume
    initial,            \* the row of the volume before the calls
    calls,              \* call -> its body, position and outcome
    \* ---- creation from an ISO upload or a migration (storage_volumes.go)
    isos,               \* scratch files in the ISO directory
    creates,            \* request -> its position and outcome
    \* ---- the loops of the snapshot scheduler (storage_volumes_snapshot.go)
    customVolSnapshotsPruneRunning,  \* ids of the snapshots whose delete is running
    loops               \* invocation -> its work list, position and outcome

recoverVars == <<userPools, validateOnly, serverClustered, dbPools, dbRows, mounted,
                 pools, ourMounts, poolsProjectVols, res, reverter, driverState, rec,
                 response, hist>>

volumeVars == <<volumes, devices, running, cluster, reqs>>

nameVars == <<naming>>

schedVars == <<sconf, snapshots, ticks, log, minute>>

updateVars == <<stored, initial, calls>>

createVars == <<isos, creates>>

loopVars == <<customVolSnapshotsPruneRunning, loops>>

vars == <<recoverVars, volumeVars, nameVars, schedVars, updateVars, createVars, loopVars>>

\* the variables each machine leaves alone
outsideRecover == <<volumeVars, nameVars, schedVars, updateVars, createVars, loopVars>>

outsideVolumes == <<recoverVars, nameVars, schedVars, updateVars, createVars, loopVars>>

outsideNames == <<recoverVars, volumeVars, schedVars, updateVars, createVars, loopVars>>

outsideSched == <<recoverVars, volumeVars, nameVars, updateVars, createVars, loopVars>>

outsideUpdate == <<recoverVars, volumeVars, nameVars, schedVars, createVars, loopVars>>

outsideCreate == <<recoverVars, volumeVars, nameVars, schedVars, updateVars, loopVars>>

outsideLoops == <<recoverVars, volumeVars, nameVars, schedVars, updateVars, createVars>>

(***************************************************************************)
(* Recover: bounds and inputs                                              *)
(***************************************************************************)

\* The request bodies considered: one unknown or known pool, or two.
UserPoolChoices == {<<"P">>, <<"P", "Q">>}

PoolIDTemporary == -1

SnapshotDelimiter == "/"

\* Projects, profiles and networks of the catalog, loaded once by the request.
projects == {"default", "p2"}

projectProfiles == [p \in projects |-> {"default"}]

projectNetworks == [p \in projects |-> {"br0"}]

\* Backup configs (backup.yaml) as ListUnknownVolumes returns them.
CustomVol(project, name, snaps) ==
    [kind |-> "custom", project |-> project, name |-> name, pool |-> "none",
     profiles |-> {}, nics |-> {}, snaps |-> snaps, config |-> "cfg-" \o name]

BucketVol(project, name) ==
    [kind |-> "bucket", project |-> project, name |-> name, pool |-> "none",
     profiles |-> {}, nics |-> {}, snaps |-> <<>>, config |-> "cfg-" \o name]

InstanceVol(project, name, pool, profiles, nics, snaps) ==
    [kind |-> "instance", project |-> project, name |-> name, pool |-> pool,
     profiles |-> profiles, nics |-> nics, snaps |-> snaps, config |-> "cfg-" \o name]

OtherPool(p) == IF p = "P" THEN "Q" ELSE "P"

\* The contents a pool named p by the user may turn out to have.
DiskLayouts(p) ==
    IF p = "P"
    THEN { <<>>,
           <<CustomVol("default", "v1", <<"s0">>)>>,
           <<InstanceVol("default", "c1", p, {"default"}, {"br0"}, <<"s0">>)>>,
           <<InstanceVol("default", "c1", OtherPool(p), {"default"}, {}, <<>>)>>,
           <<BucketVol("default", "b1"), CustomVol("default", "v1", <<>>),
             InstanceVol("default", "c1", "none", {"default"}, {}, <<>>)>>,
           <<CustomVol("p2", "v2", <<>>), InstanceVol("default", "c1", p, {}, {}, <<>>)>>,
           <<InstanceVol("default", "c1", p, {"gone"}, {"br9"}, <<>>)>>,
           <<CustomVol("ghost", "v1", <<>>)>> }
    ELSE { <<>>,
           <<CustomVol("default", "v1", <<"s0">>)>>,
           <<InstanceVol("default", "c2", p, {"default"}, {}, <<>>)>> }

\* The contents of a pool whose driver cannot list unknown volumes.
UnlistedLayouts(p) ==
    { <<>>, <<CustomVol("default", "v1", <<"s0">>)>>, <<CustomVol("ghost", "v1", <<>>)>> }

(***************************************************************************)
(* Recover: helpers                                                        *)
(***************************************************************************)

PoolRowNames(rows) == {r.name : r \in rows}

NewPoolID(rows) ==
    IF rows = {} THEN 1
    ELSE 1 + (CHOOSE m \in {r.id : r \in rows} : \A r \in rows : r.id <= m)

PoolVols(p) == IF p \in DOMAIN poolsProjectVols THEN poolsProjectVols[p] ELSE <<>>

ProjectVols(p, pr) == SelectSeq(PoolVols(p), LAMBDA v : v.project = pr)

ProjectsOf(p) == {PoolVols(p)[k].project : k \in DOMAIN PoolVols(p)}

Row(pool, project, type, name, config) ==
    [pool |-> pool, project |-> project, type |-> type, name |-> name, config |-> config]

Hook(kind, pool, rows) == [kind |-> kind, pool |-> pool, rows |-> rows]


\* Dependency errors of the unknown volumes vs of one pool (addDependencyError
\* keeps one entry per error text).
DependencyErrorsOf(vs) ==
    LET found == {vs[k] : k \in DOMAIN vs}
    IN  {<<"Project", v.project>> : v \in {w \in found : w.project \notin projects}}
        \cup UNION {{<<"Profile", n, v.project>> : n \in v.profiles \ projectProfiles[v.project]} :
                      v \in {w \in found : w.project \in projects /\ w.kind = "instance"}}
        \cup UNION {{<<"Network", n, v.project>> : n \in v.nics \ projectNetworks[v.project]} :
                      v \in {w \in found : w.project \in projects /\ w.kind = "instance"}}

\* One entry of ValidateResult.UnknownVolumes.
ValidateVolume(poolName, v) ==
    [Pool |-> poolName, Project |-> v.project,
     Type |-> IF v.kind = "instance" THEN "container"
              ELSE IF v.kind = "bucket" THEN "bucket" ELSE "volume",
     Name |-> v.name,
     SnapshotCount |-> IF v.kind = "bucket" THEN 0 ELSE Len(v.snaps)]

UnknownVolumes(ppv) ==
    UNION {{ValidateVolume(p, ppv[p][k]) : k \in DOMAIN ppv[p]} : p \in DOMAIN ppv}

\* The deferred closures of the scan, run last-registered first: a pool the scan
\* mounted is unmounted if its handle is still the temporary one.
RECURSIVE RunDeferredUnmounts(_, _, _)
RunDeferredUnmounts(ds, ps, m) ==
    IF ds = <<>> THEN m
    ELSE LET p == ds[Len(ds)]
         IN  RunDeferredUnmounts(SubSeq(ds, 1, Len(ds) - 1), ps,
                                 IF ps[p] = PoolIDTemporary THEN m \ {p} ELSE m)

\* RunHook with an unmount hook that leaves the pool mounted.
RunHook_NoUnmount(h, st) ==
    CASE h.kind = "unmount" -> [st EXCEPT !.log = Append(@, h)]
      [] h.kind = "deletePool" ->
            [st EXCEPT !.dbPools = {r \in @ : r.name # h.pool}, !.log = Append(@, h)]
      [] h.kind = "rows" ->
            [st EXCEPT !.dbRows = @ \ h.rows, !.log = Append(@, h)]
      [] OTHER ->
            [st EXCEPT !.driverState = @ \ h.rows, !.log = Append(@, h)]

\* One undo hook applied to the catalog, the mounts and the driver state.
RunHook(h, st) ==
    CASE h.kind = "unmount" ->
            [st EXCEPT !.mounted = @ \ {h.pool}, !.log = Append(@, h)]
      [] h.kind = "deletePool" ->
            [st EXCEPT !.dbPools = {r \in @ : r.name # h.pool}, !.log = Append(@, h)]
      [] h.kind = "rows" ->
            [st EXCEPT !.dbRows = @ \ h.rows, !.log = Append(@, h)]
      [] OTHER ->
            [st EXCEPT !.driverState = @ \ h.rows, !.log = Append(@, h)]

\* reverter.Fail() running the hooks in the order of their registration.
RECURSIVE RevertFail_InOrder(_, _)
RevertFail_InOrder(hooks, st) ==
    IF hooks = <<>> THEN st
    ELSE RevertFail_InOrder(Tail(hooks), RunHook(Head(hooks), st))

\* reverter.Fail(): the hooks run in reverse order of registration.
RECURSIVE RevertFail(_, _)
RevertFail(hooks, st) ==
    IF hooks = <<>> THEN st
    ELSE RevertFail(SubSeq(hooks, 1, Len(hooks) - 1), RunHook(hooks[Len(hooks)], st))

\* What the function's return leaves behind: the deferred closures run in reverse
\* order of their defer statements, so the unmount closures run before
\* reverter.Fail(), which is a no-op after reverter.Success().
AfterReturn(success, db, rows, mnt, ps, ds, hooks, drv) ==
    LET st == [dbPools |-> db, dbRows |-> rows,
               mounted |-> RunDeferredUnmounts(ds, ps, mnt),
               driverState |-> drv, log |-> <<>>]
    IN  IF success THEN st ELSE RevertFail(hooks, st)


(***************************************************************************)
(* Recover: the request                                                    *)
(***************************************************************************)

PoolRow(name, id, source, status) ==
    [name |-> name, id |-> id, source |-> source, status |-> status]

\* Catalogs the request may start from: each named pool has a row or not.
InitialPoolRows ==
    { {PoolRow(n, IF n = "P" THEN 1 ELSE 2, "db", "created") : n \in S} :
        S \in SUBSET {"P", "Q"} }

RecoverInit ==
    /\ userPools \in UserPoolChoices
    /\ validateOnly \in BOOLEAN
    /\ serverClustered \in BOOLEAN
    /\ dbPools \in InitialPoolRows
    /\ dbRows = {}
    /\ mounted = {}
    /\ pools = <<>>
    /\ ourMounts = <<>>
    /\ poolsProjectVols = <<>>
    /\ res = [UnknownVolumes |-> {}, DependencyErrors |-> {}]
    /\ reverter = <<>>
    /\ driverState = {}
    /\ rec = [pc |-> "scan", i |-> 1, todo |-> {}, pool |-> "", project |-> "",
              idx |-> 0, step |-> "", sidx |-> 0]
    /\ response = "none"
    /\ hist = [dbPools0 |-> dbPools, disk |-> <<>>, unsupported |-> {},
               temporary |-> {}, ourMount |-> {}, mountedBefore |-> {},
               unmounted |-> {}, poolRows |-> {}, rows |-> {}, undo |-> <<>>,
               events |-> <<>>, failed |-> "none"]

Put(f, k, v) == [x \in DOMAIN f \cup {k} |-> IF x = k THEN v ELSE f[x]]

\* The function returns: deferred closures, then reverter.Fail() unless
\* reverter.Success() was called. resp is the response handed back.
Return(resp, success, failed, db, rows, mnt, ps, hooks, drv, h) ==
    LET st == AfterReturn(success, db, rows, mnt, ps, ourMounts', hooks, drv)
    IN  /\ response' = resp
        /\ dbPools' = st.dbPools
        /\ dbRows' = st.dbRows
        /\ mounted' = st.mounted
        /\ driverState' = st.driverState
        /\ pools' = ps
        /\ reverter' = hooks
        /\ rec' = [rec EXCEPT !.pc = "done"]
        /\ hist' = [h EXCEPT !.undo = st.log, !.failed = failed,
                             !.unmounted = mnt \ st.mounted]

\* LoadByName on a pool of the request: its row, if the catalog has one.
PoolFound(p) == p \in PoolRowNames(dbPools)

PoolRowID(db, p) == (CHOOSE r \in db : r.name = p).id

\* ListUnknownVolumes storing the volumes of a pool whose driver does not
\* support the listing.
ListUnknownVolumes_KeepUnsupported(vols, p, supported, layout) == Put(vols, p, layout)

\* pool.ListUnknownVolumes: the volumes found are stored for the pool; a driver
\* answering ErrNotSupported is ignored.
ListUnknownVolumes(vols, p, supported, layout) ==
    IF supported THEN Put(vols, p, layout) ELSE vols

\* One iteration of the scan loop that reaches the dependency checks or the
\* `continue` of an unsupported driver.
RecoverScanPool ==
    /\ response = "none" /\ rec.pc = "scan" /\ rec.i <= Len(userPools)
    /\ LET p == userPools[rec.i]
       IN  /\ ~(~PoolFound(p) /\ serverClustered)
           /\ \E ourMount \in BOOLEAN, supported \in BOOLEAN :
              \E layout \in IF supported THEN DiskLayouts(p) ELSE UnlistedLayouts(p) :
                /\ pools' = Put(pools, p, IF PoolFound(p) THEN PoolRowID(dbPools, p)
                                          ELSE PoolIDTemporary)
                /\ mounted' = mounted \cup {p}
                /\ ourMounts' = IF ourMount THEN Append(ourMounts, p) ELSE ourMounts
                /\ reverter' = IF ourMount THEN Append(reverter, Hook("unmount", p, {}))
                               ELSE reverter
                /\ poolsProjectVols' = ListUnknownVolumes(poolsProjectVols, p, supported,
                                                          layout)
                /\ res' = [res EXCEPT !.DependencyErrors =
                              IF supported THEN @ \cup DependencyErrorsOf(layout) ELSE @]
                /\ rec' = [rec EXCEPT !.i = @ + 1]
                /\ hist' = [hist EXCEPT
                              !.temporary = IF PoolFound(p) THEN @ ELSE @ \cup {p},
                              !.ourMount = IF ourMount THEN @ \cup {p} ELSE @,
                              !.mountedBefore = IF ourMount THEN @ ELSE @ \cup {p},
                              !.disk = Put(@, p, layout),
                              !.unsupported = IF supported THEN @ ELSE @ \cup {p},
                              !.events = Append(@, <<"scan", p>>)]
    /\ UNCHANGED <<userPools, validateOnly, serverClustered, dbPools, dbRows,
                   driverState, response>>

\* One iteration of the scan loop that returns an error: the pool has no row and
\* the server is clustered ("clustered"), the pool cannot be loaded, created as a
\* temporary pool, filled or validated ("init"), it cannot be mounted ("mount"),
\* or listing its volumes fails with an error other than ErrNotSupported ("list").
RecoverScanFail ==
    /\ response = "none" /\ rec.pc = "scan" /\ rec.i <= Len(userPools)
    /\ LET p == userPools[rec.i]
           ps == Put(pools, p, IF PoolFound(p) THEN PoolRowID(dbPools, p)
                               ELSE PoolIDTemporary)
       IN  \E at \in IF ~PoolFound(p) /\ serverClustered THEN {"clustered"}
                     ELSE {"init", "mount", "list"} :
           \E ourMount \in IF at = "list" THEN BOOLEAN ELSE {FALSE} :
             /\ ourMounts' = IF ourMount THEN Append(ourMounts, p) ELSE ourMounts
             /\ Return("error", FALSE, "scan", dbPools, dbRows,
                       IF at = "list" THEN mounted \cup {p} ELSE mounted,
                       IF at \in {"mount", "list"} THEN ps ELSE pools,
                       IF ourMount THEN Append(reverter, Hook("unmount", p, {}))
                       ELSE reverter,
                       driverState,
                       [hist EXCEPT
                          !.temporary = IF at \in {"mount", "list"} /\ ~PoolFound(p)
                                        THEN @ \cup {p} ELSE @,
                          !.ourMount = IF ourMount THEN @ \cup {p} ELSE @,
                          !.mountedBefore = IF at = "list" /\ ~ourMount
                                            THEN @ \cup {p} ELSE @,
                          !.events = Append(@, <<"scanfail", p, at>>)])
    /\ UNCHANGED <<userPools, validateOnly, serverClustered, poolsProjectVols, res>>

\* ScanOnly without the test of the dependency errors.
ScanOnly_ValidateFlagOnly == validateOnly

\* The test that ends the request after the scan.
ScanOnly == validateOnly \/ res.DependencyErrors # {}

\* Validation mode or dependency errors: the unknown volumes and the dependency
\* errors are returned; reverter.Success() is not called on this path.
RecoverValidateReturn ==
    /\ response = "none" /\ rec.pc = "scan" /\ rec.i > Len(userPools)
    /\ ScanOnly
    /\ res' = [res EXCEPT !.UnknownVolumes = UnknownVolumes(poolsProjectVols)]
    /\ ourMounts' = ourMounts
    /\ Return("validated", FALSE, "none", dbPools, dbRows, mounted, pools, reverter,
              driverState, hist)
    /\ UNCHANGED <<userPools, validateOnly, serverClustered, poolsProjectVols>>

RecoverBeginImport ==
    /\ response = "none" /\ rec.pc = "scan" /\ rec.i > Len(userPools)
    /\ ~ScanOnly
    /\ rec' = [rec EXCEPT !.pc = "create", !.todo = DOMAIN pools]
    /\ UNCHANGED <<userPools, validateOnly, serverClustered, dbPools, dbRows, mounted,
                   pools, ourMounts, poolsProjectVols, res, reverter, driverState,
                   response, hist>>


(***************************************************************************)
(* Recover: import phase                                                   *)
(***************************************************************************)

\* The first volume with a Pool block of each project of the pool: the search
\* walks the projects in map order and stops at the first such volume.
InstPoolVolCandidates(p) ==
    {v \in {PoolVols(p)[k] : k \in DOMAIN PoolVols(p)} :
        /\ v.pool # "none"
        /\ \E k \in DOMAIN ProjectVols(p, v.project) :
             /\ ProjectVols(p, v.project)[k] = v
             /\ \A j \in 1..(k - 1) : ProjectVols(p, v.project)[j].pool = "none"}

\* The name given to the new pool row.
NewPoolRowName(p, instPoolVol) == IF instPoolVol.pool # "none" THEN instPoolVol.pool ELSE p

NoVol == CustomVol("", "", <<>>)

\* Creation of the row of temporary pool p; fail \in {"none", "create", "mark",
\* "load"} is the step an error is injected at. Yields the catalog, the hooks and
\* the handles after the step, and whether the step succeeded.
CreatePoolRecord(p, instPoolVol, fail) ==
    LET name == NewPoolRowName(p, instPoolVol)
        id == NewPoolID(dbPools)
        created == fail # "create" /\ name \notin PoolRowNames(dbPools)
        marked == created /\ fail # "mark"
        row == PoolRow(name, id, IF instPoolVol.pool # "none" THEN "instance" ELSE "user",
                       IF marked THEN "created" ELSE "pending")
        db == IF created THEN dbPools \cup {row} ELSE dbPools
        loaded == marked /\ fail # "load" /\ p \in PoolRowNames(db)
    IN  [ok |-> loaded,
         dbPools |-> db,
         reverter |-> IF created THEN Append(reverter, Hook("deletePool", p, {}))
                      ELSE reverter,
         pools |-> IF loaded THEN Put(pools, p, PoolRowID(db, p)) ELSE pools,
         inserted |-> IF created THEN {[user |-> p, row |-> row]} ELSE {}]

CreatePoolChoices(p) ==
    IF InstPoolVolCandidates(p) = {} THEN {NoVol} ELSE InstPoolVolCandidates(p)

\* All pairs (pool, project) the loops over pools and their projects visit.
AllPoolProjects == {pp \in (DOMAIN pools) \X projects : pp[2] \in ProjectsOf(pp[1])}

\* One iteration of the loop creating the pool rows.
RecoverCreatePool ==
    /\ response = "none" /\ rec.pc = "create"
    /\ \E p \in rec.todo :
         IF pools[p] # PoolIDTemporary
         THEN /\ rec' = [rec EXCEPT !.todo = @ \ {p}]
              /\ UNCHANGED <<dbPools, pools, reverter, hist>>
         ELSE \E v \in CreatePoolChoices(p) :
                LET o == CreatePoolRecord(p, v, "none")
                IN  /\ o.ok
                    /\ dbPools' = o.dbPools
                    /\ pools' = o.pools
                    /\ reverter' = o.reverter
                    /\ rec' = [rec EXCEPT !.todo = @ \ {p}]
                    /\ hist' = [hist EXCEPT !.poolRows = @ \cup o.inserted,
                                            !.events = Append(@, <<"pool", p>>)]
    /\ UNCHANGED <<userPools, validateOnly, serverClustered, dbRows, mounted, ourMounts,
                   poolsProjectVols, res, driverState, response>>

\* The iteration returns an error: creating the row, marking it created or
\* loading the created pool failed.
RecoverCreatePoolFail ==
    /\ response = "none" /\ rec.pc = "create"
    /\ \E p \in rec.todo :
         /\ pools[p] = PoolIDTemporary
         /\ \E v \in CreatePoolChoices(p), fail \in {"none", "create", "mark", "load"} :
              LET o == CreatePoolRecord(p, v, fail)
              IN  /\ ~o.ok
                  /\ ourMounts' = ourMounts
                  /\ Return("error", FALSE, "import", o.dbPools, dbRows, mounted, o.pools,
                            o.reverter, driverState,
                            [hist EXCEPT !.poolRows = @ \cup o.inserted,
                                         !.events = Append(@, <<"poolfail", p>>)])
    /\ UNCHANGED <<userPools, validateOnly, serverClustered, poolsProjectVols, res>>

\* The loop over the pools is done: on to the volumes and buckets.
RecoverBeginVolumes ==
    /\ response = "none" /\ rec.pc = "create" /\ rec.todo = {}
    /\ rec' = [rec EXCEPT !.pc = "volumes", !.todo = AllPoolProjects,
                          !.pool = "", !.project = ""]
    /\ UNCHANGED <<userPools, validateOnly, serverClustered, dbPools, dbRows, mounted,
                   pools, ourMounts, poolsProjectVols, res, reverter, driverState,
                   response, hist>>

\* The next (pool, project) of a loop over the pools and, within a pool, over its
\* projects: both are map iterations, in any order.
NextPoolProjects ==
    IF \E pp \in rec.todo : pp[1] = rec.pool
    THEN {pp \in rec.todo : pp[1] = rec.pool}
    ELSE rec.todo

RecoverNextProject ==
    /\ response = "none" /\ rec.pc \in {"volumes", "instances"} /\ rec.project = ""
    /\ \E pp \in NextPoolProjects :
         rec' = [rec EXCEPT !.todo = @ \ {pp}, !.pool = pp[1], !.project = pp[2],
                            !.idx = 1,
                            !.step = IF rec.pc = "volumes" THEN "custom" ELSE "row",
                            !.sidx = 0]
    /\ UNCHANGED <<userPools, validateOnly, serverClustered, dbPools, dbRows, mounted,
                   pools, ourMounts, poolsProjectVols, res, reverter, driverState,
                   response, hist>>

\* The volume the loops are at.
CurVols == ProjectVols(rec.pool, rec.project)

CurVol == CurVols[rec.idx]

\* rec after the current volume is done with in the current loop.
AdvanceVolume ==
    IF rec.idx < Len(CurVols) THEN [rec EXCEPT !.idx = @ + 1, !.sidx = 0,
                                               !.step = IF rec.pc = "volumes" THEN @ ELSE "row"]
    ELSE IF rec.pc = "volumes" /\ rec.step = "custom"
    THEN [rec EXCEPT !.idx = 1, !.step = "bucket"]
    ELSE [rec EXCEPT !.project = "", !.idx = 0, !.step = "", !.sidx = 0]


\* pool.ImportCustomVolume: the rows of the custom volume and of its snapshots.
ImportCustomVolume(p, projectName, poolVol) ==
    {Row(p, projectName, "custom", poolVol.name, poolVol.config)} \cup
    {Row(p, projectName, "custom",
         poolVol.name \o SnapshotDelimiter \o poolVol.snaps[k], poolVol.config) :
       k \in DOMAIN poolVol.snaps}

\* pool.ImportBucket: the row of the bucket.
ImportBucket(p, projectName, poolVol) ==
    {Row(p, projectName, "bucket", poolVol.name, poolVol.config)}

\* internalRecoverImportInstance: the row of the instance.
ImportInstanceRow(p, projectName, poolVol) ==
    Row(p, projectName, "container", poolVol.name, poolVol.config)

\* ImportInstanceSnapshotRow naming the row after the snapshot alone.
ImportInstanceSnapshotRow_NoParent(p, projectName, poolVol, snap) ==
    Row(p, projectName, "container", snap, poolVol.config)

\* internalRecoverImportInstanceSnapshot: the row of one snapshot of the instance.
ImportInstanceSnapshotRow(p, projectName, poolVol, snap) ==
    Row(p, projectName, "container", poolVol.name \o SnapshotDelimiter \o snap,
        poolVol.config)

\* VolumeSelected with a loop over the custom volumes that skips every volume.
VolumeSelected_NoCustom ==
    CASE rec.step = "custom" -> FALSE
      [] rec.step = "bucket" -> CurVol.kind = "bucket"
      [] OTHER -> CurVol.kind = "instance"

\* Is the current volume one the current loop handles (it skips the others)?
VolumeSelected ==
    CASE rec.step = "custom" -> CurVol.kind = "custom"
      [] rec.step = "bucket" -> CurVol.kind = "bucket"
      [] OTHER -> CurVol.kind = "instance"

\* The loops over the custom volumes and the buckets of a pool and project: the
\* current volume is imported, or skipped when the loop does not handle it.
RecoverImportVolume ==
    /\ response = "none" /\ rec.pc = "volumes" /\ rec.project # ""
    /\ LET rows == IF rec.step = "custom"
                   THEN ImportCustomVolume(rec.pool, rec.project, CurVol)
                   ELSE ImportBucket(rec.pool, rec.project, CurVol)
       IN  IF VolumeSelected
           THEN /\ dbRows' = dbRows \cup rows
                /\ reverter' = Append(reverter, Hook("rows", rec.pool, rows))
                /\ hist' = [hist EXCEPT !.rows = @ \cup rows,
                                        !.events = Append(@, <<rec.step, rec.pool, rec.project, CurVol.name>>)]
           ELSE UNCHANGED <<dbRows, reverter, hist>>
    /\ rec' = AdvanceVolume
    /\ UNCHANGED <<userPools, validateOnly, serverClustered, dbPools, mounted, pools,
                   ourMounts, poolsProjectVols, res, driverState, response>>

\* NextInstanceStep with pool.ImportInstance ahead of the snapshot rows.
NextInstanceStep_ImportFirst ==
    CASE rec.step = "row" -> [rec EXCEPT !.step = "import"]
      [] rec.step = "import" ->
            IF CurVol.snaps # <<>> THEN [rec EXCEPT !.step = "snap", !.sidx = 1]
            ELSE [rec EXCEPT !.step = "quota"]
      [] rec.step = "snap" ->
            IF rec.sidx < Len(CurVol.snaps) THEN [rec EXCEPT !.sidx = @ + 1]
            ELSE [rec EXCEPT !.step = "quota"]
      [] OTHER -> AdvanceVolume

\* The steps of the import of one instance, in the order of the code.
NextInstanceStep ==
    CASE rec.step = "row" ->
            IF CurVol.snaps # <<>> THEN [rec EXCEPT !.step = "snap", !.sidx = 1]
            ELSE [rec EXCEPT !.step = "import"]
      [] rec.step = "snap" ->
            IF rec.sidx < Len(CurVol.snaps) THEN [rec EXCEPT !.sidx = @ + 1]
            ELSE [rec EXCEPT !.step = "import"]
      [] rec.step = "import" -> [rec EXCEPT !.step = "quota"]
      [] OTHER -> AdvanceVolume

\* The loop over the instances of a pool and project, one step at a time: the
\* instance row, the row of each snapshot, pool.ImportInstance, and the quota.
RecoverImportInstance ==
    /\ response = "none" /\ rec.pc = "instances" /\ rec.project # ""
    /\ IF ~VolumeSelected
       THEN /\ rec' = AdvanceVolume
            /\ UNCHANGED <<dbRows, reverter, driverState, hist>>
       ELSE /\ rec' = NextInstanceStep
            /\ LET inst == <<rec.pool, rec.project, CurVol.name>>
                   rows == IF rec.step = "row"
                           THEN {ImportInstanceRow(rec.pool, rec.project, CurVol)}
                           ELSE IF rec.step = "snap"
                           THEN {ImportInstanceSnapshotRow(rec.pool, rec.project, CurVol,
                                                           CurVol.snaps[rec.sidx])}
                           ELSE {}
                   drv == IF rec.step = "import" THEN {<<"mount", inst>>}
                          ELSE IF rec.step = "quota" THEN {<<"quota", inst>>}
                          ELSE {}
               IN  /\ dbRows' = dbRows \cup rows
                   /\ driverState' = driverState \cup drv
                   /\ reverter' = IF rec.step = "quota" THEN reverter
                                  ELSE IF rec.step = "import"
                                  THEN Append(reverter, Hook("driver", rec.pool, drv))
                                  ELSE Append(reverter, Hook("rows", rec.pool, rows))
                   /\ hist' = [hist EXCEPT !.rows = @ \cup rows,
                                           !.events = Append(@, <<rec.step, rec.pool, rec.project, CurVol.name>>)]
    /\ UNCHANGED <<userPools, validateOnly, serverClustered, dbPools, mounted, pools,
                   ourMounts, poolsProjectVols, res, response>>

\* A step of the import of a volume, bucket or instance returns an error.
RecoverImportFail ==
    /\ response = "none" /\ rec.pc \in {"volumes", "instances"} /\ rec.project # ""
    /\ VolumeSelected
    /\ ourMounts' = ourMounts
    /\ Return("error", FALSE, "import", dbPools, dbRows, mounted, pools, reverter,
              driverState,
              [hist EXCEPT !.events = Append(@, <<"fail", rec.step, rec.pool, CurVol.name>>)])
    /\ UNCHANGED <<userPools, validateOnly, serverClustered, poolsProjectVols, res>>

\* The loop over the volumes and buckets is done: on to the instances.
RecoverBeginInstances ==
    /\ response = "none" /\ rec.pc = "volumes" /\ rec.project = "" /\ rec.todo = {}
    /\ rec' = [rec EXCEPT !.pc = "instances", !.todo = AllPoolProjects, !.pool = ""]
    /\ UNCHANGED <<userPools, validateOnly, serverClustered, dbPools, dbRows, mounted,
                   pools, ourMounts, poolsProjectVols, res, reverter, driverState,
                   response, hist>>

\* Everything is imported: reverter.Success() and the empty response.
RecoverImportReturn ==
    /\ response = "none" /\ rec.pc = "instances" /\ rec.project = "" /\ rec.todo = {}
    /\ ourMounts' = ourMounts
    /\ Return("imported", TRUE, "none", dbPools, dbRows, mounted, pools, reverter,
              driverState, hist)
    /\ UNCHANGED <<userPools, validateOnly, serverClustered, poolsProjectVols, res>>

RecoverNext ==
    \/ RecoverScanPool /\ UNCHANGED outsideRecover
    \/ RecoverScanFail /\ UNCHANGED outsideRecover
    \/ RecoverValidateReturn /\ UNCHANGED outsideRecover
    \/ RecoverBeginImport /\ UNCHANGED outsideRecover
    \/ RecoverCreatePool /\ UNCHANGED outsideRecover
    \/ RecoverCreatePoolFail /\ UNCHANGED outsideRecover
    \/ RecoverBeginVolumes /\ UNCHANGED outsideRecover
    \/ RecoverNextProject /\ UNCHANGED outsideRecover
    \/ RecoverImportVolume /\ UNCHANGED outsideRecover
    \/ RecoverImportInstance /\ UNCHANGED outsideRecover
    \/ RecoverImportFail /\ UNCHANGED outsideRecover
    \/ RecoverBeginInstances /\ UNCHANGED outsideRecover
    \/ RecoverImportReturn /\ UNCHANGED outsideRecover



(***************************************************************************)
(* Recover: properties                                                     *)
(***************************************************************************)

ImportFailed == response = "error" /\ hist.failed = "import"

\* Is the pool row that the request inserted still in the catalog?
PoolRowRemains(i) == \E r \in dbPools : r.name = i.row.name /\ r.id = i.row.id

\* C2: when the import phase of a recover request fails, the catalog holds none
\* of the pool, volume, bucket, instance or snapshot rows the request inserted.
C2_FailedImportLeavesNoRow ==
    ImportFailed =>
        /\ \A i \in hist.poolRows : ~PoolRowRemains(i)
        /\ hist.rows \cap dbRows = {}

\* C3: a request in validation mode, or whose scan found a dependency error,
\* never changes the catalog, and what it returns is the unknown volumes of the
\* scanned pools and the dependency errors.
C3_ScanOnlyKeepsCatalog ==
    /\ (validateOnly \/ res.DependencyErrors # {}) =>
          /\ dbPools = hist.dbPools0
          /\ dbRows = {}
          /\ response \in {"none", "validated", "error"}
    /\ response = "validated" =>
          /\ {<<e.Pool, e.Project, e.Name>> : e \in res.UnknownVolumes} =
             UNION {{<<q, hist.disk[q][k].project, hist.disk[q][k].name>> :
                       k \in DOMAIN hist.disk[q]} :
                    q \in DOMAIN hist.disk \ hist.unsupported}
          /\ (res.DependencyErrors = {}) => validateOnly

C3_Witness ==
    /\ response = "validated" /\ ~validateOnly
    /\ res.DependencyErrors # {} /\ res.UnknownVolumes # {}
    /\ hist.temporary # {}

\* C4: a scan that returns without importing unmounts only temporary pools that
\* its own Mount call mounted; pools with a catalog row and pools that were
\* mounted before are still mounted when it returns.
C4_ScanOnlyUnmountsOwnTemporaryOnly ==
    response = "validated" =>
        /\ hist.unmounted \subseteq (hist.temporary \cap hist.ourMount)
        /\ \A q \in DOMAIN pools :
             (q \in PoolRowNames(hist.dbPools0) \/ q \notin hist.ourMount) => q \in mounted

\* C5: a pool an import handles as temporary has, after a successful import, a
\* row with a stable id and is mounted; after a failed import it has no row and,
\* if the scan mounted it, is unmounted. No pool row has the temporary id.
C5_TemporaryPoolOutcome ==
    /\ \A r \in dbPools : r.id # PoolIDTemporary
    /\ ~validateOnly =>
        \A q \in hist.temporary :
          /\ response = "imported" =>
                /\ \E r \in dbPools : r.name = q /\ r.id # PoolIDTemporary
                /\ q \in mounted
          /\ response = "error" =>
                /\ q \notin PoolRowNames(dbPools)
                /\ \A i \in hist.poolRows : i.user = q => ~PoolRowRemains(i)
                /\ q \in hist.ourMount => q \notin mounted

\* The catalog tuples a pool with the given contents had before the wipe.
TuplesOf(q, vs) ==
    UNION {{<<q, vs[k].project,
              IF vs[k].kind = "instance" THEN "container" ELSE vs[k].kind,
              vs[k].name, vs[k].config>>} \cup
           {<<q, vs[k].project,
              IF vs[k].kind = "instance" THEN "container" ELSE vs[k].kind,
              vs[k].name \o "/" \o vs[k].snaps[j], vs[k].config>> : j \in DOMAIN vs[k].snaps} :
           k \in DOMAIN vs}

CatalogTuples == {<<r.pool, r.project, r.type, r.name, r.config>> : r \in dbRows}

RecoveredFromEmpty == response = "imported" /\ hist.dbPools0 = {}

LastEvent == hist.events[Len(hist.events)]

\* the scan ended at pool q because the server is clustered and q has no row
ClusteredWithoutRow(q) ==
    /\ response # "none"
    /\ hist.events # <<>>
    /\ LastEvent = <<"scanfail", q, "clustered">>

\* C25: on a clustered server a recover request naming a pool without catalog row
\* fails, makes no temporary pool of it, inserts no row, and leaves no pool
\* mounted that its scan had mounted
C25_ClusteredUnknownPoolFails ==
    /\ (serverClustered /\ \E k \in DOMAIN userPools :
                              userPools[k] \notin PoolRowNames(hist.dbPools0))
            => response \in {"none", "error"}
    /\ \A q \in {"P", "Q"} :
        ClusteredWithoutRow(q) =>
            /\ response = "error"
            /\ q \notin hist.temporary /\ q \notin DOMAIN pools
            /\ dbPools = hist.dbPools0 /\ dbRows = {}
            /\ hist.ourMount \cap mounted = {}

\* the scan mounted P, then failed at Q, which has no row, and unmounted P
C25_Witness ==
    /\ ClusteredWithoutRow("Q")
    /\ serverClustered
    /\ "P" \in hist.ourMount /\ "P" \in hist.unmounted
    /\ mounted = {}

\* what the supported pools scanned so far contribute to the result
ListedPools == DOMAIN hist.disk \ hist.unsupported

\* the scan step of a pool whose driver answers ErrNotSupported
SkipsUnsupported ==
    /\ rec.pc = "scan" /\ response = "none"
    /\ hist'.unsupported # hist.unsupported

\* C26: a pool whose driver answers ErrNotSupported to the listing is skipped: the
\* request goes on with the next pool, and the pool adds nothing to UnknownVolumes
\* or DependencyErrors; any other error of the listing fails the request
C26_UnsupportedPoolSkipped ==
    /\ [](/\ DOMAIN poolsProjectVols = ListedPools
          /\ \A e \in res.UnknownVolumes : e.Pool \notin hist.unsupported
          /\ res.DependencyErrors = UNION {DependencyErrorsOf(hist.disk[q]) : q \in ListedPools}
          /\ (hist.events # <<>> /\ LastEvent[1] = "scanfail" /\ LastEvent[3] = "list")
                => response = "error")
    /\ [][SkipsUnsupported =>
            /\ response' = "none"
            /\ rec' = [rec EXCEPT !.i = @ + 1]
            /\ res' = res
            /\ poolsProjectVols' = poolsProjectVols]_vars

\* a request has skipped P, whose driver does not list, although P holds a volume
\* of an unknown project, and has returned the volumes of Q
C26_Witness ==
    /\ response = "validated"
    /\ "P" \in hist.unsupported /\ hist.disk["P"] # <<>>
    /\ \E e \in res.UnknownVolumes : e.Pool = "Q"
    /\ res.DependencyErrors = {}

\* the rows of the unknown custom volumes of a pool and project
CustomRows(q, pr) ==
    UNION {ImportCustomVolume(q, pr, ProjectVols(q, pr)[k]) :
             k \in {j \in DOMAIN ProjectVols(q, pr) : ProjectVols(q, pr)[j].kind = "custom"}}

\* the step inserts a row of an instance or of an instance snapshot
InsertsInstanceRow == \E row \in dbRows' \ dbRows : row.type = "container"

\* the step inserts the row of a bucket
InsertsBucketRow == \E row \in dbRows' \ dbRows : row.type = "bucket"

\* C28: no instance row is created before every unknown custom volume of every
\* pool and project of the request is imported, and within one pool and project
\* the custom volumes are imported before the buckets
C28_CustomVolumesFirst ==
    [][/\ InsertsInstanceRow =>
            \A q \in DOMAIN poolsProjectVols : \A pr \in ProjectsOf(q) :
                CustomRows(q, pr) \subseteq dbRows
       /\ InsertsBucketRow => CustomRows(rec.pool, rec.project) \subseteq dbRows]_vars

\* an import has created a custom volume, a bucket and an instance
C28_Witness ==
    /\ response = "imported"
    /\ \A t \in {"custom", "bucket", "container"} : \E row \in dbRows : row.type = t

\* the import steps of an instance with n snapshots, in their order
InstanceSteps(n) == <<"row">> \o [k \in 1..n |-> "snap"] \o <<"import", "quota">>

\* the steps the request took on the instance, in the order it took them
RECURSIVE StepsOn(_, _)
StepsOn(inst, events) ==
    IF events = <<>> THEN <<>>
    ELSE LET e == Head(events)
         IN  (IF e[1] \in {"row", "snap", "import", "quota"} /\ Tail(e) = inst
              THEN <<e[1]>> ELSE <<>>) \o StepsOn(inst, Tail(events))

IsPrefix(a, b) == Len(a) <= Len(b) /\ a = SubSeq(b, 1, Len(a))

\* C29: the steps on a recovered instance come in the order instance row, row of
\* each snapshot (named parent/snap), import-instance step of the pool, root-disk
\* quota; a failing step stops the later steps of the instance and fails the import
C29_InstanceImportSteps ==
    \A q \in DOMAIN poolsProjectVols :
      \A k \in {j \in DOMAIN PoolVols(q) : PoolVols(q)[j].kind = "instance"} :
        LET v == PoolVols(q)[k]
            done == StepsOn(<<q, v.project, v.name>>, hist.events)
            all == InstanceSteps(Len(v.snaps))
        IN  /\ IsPrefix(done, all)
            /\ response = "imported" =>
                /\ done = all
                /\ \A j \in DOMAIN v.snaps :
                     \E row \in dbRows : /\ row.type = "container"
                                         /\ row.name = v.name \o "/" \o v.snaps[j]
            /\ (hist.events # <<>> /\ LastEvent = <<"fail", LastEvent[2], q, v.name>>) =>
                /\ response = "error"
                /\ Len(done) < Len(all)
                /\ all[Len(done) + 1] = LastEvent[2]

\* an instance with a snapshot has gone through all its steps
C29_Witness ==
    /\ response = "imported"
    /\ StepsOn(<<"P", "default", "c1">>, hist.events) = <<"row", "snap", "import", "quota">>

Reverse(seq) == [k \in 1..Len(seq) |-> seq[Len(seq) + 1 - k]]

\* the place of an undo hook in the order of the registrations
HookRank(h) ==
    CASE h.kind = "unmount" -> 0
      [] h.kind = "deletePool" -> 1
      [] h.kind = "rows" /\ \A row \in h.rows : row.type # "container" -> 2
      [] OTHER -> 3

\* C30: when a recover import fails the registered undo actions run in the reverse
\* of the order of their registration: instance and snapshot rows before custom
\* volumes and buckets, these before the pool row, the unmount of the pool last;
\* when the import succeeds none of them runs
C30_UndoInReverseOrder ==
    /\ ImportFailed =>
        /\ hist.undo = Reverse(reverter)
        /\ \A i, j \in DOMAIN hist.undo :
             i < j => HookRank(hist.undo[i]) >= HookRank(hist.undo[j])
    /\ response = "imported" => (hist.undo = <<>> /\ hist.rows \subseteq dbRows)

\* a failed import has undone instance rows, custom volume rows, a pool row and
\* a mount
C30_Witness ==
    /\ ImportFailed
    /\ \A n \in 0..3 : \E i \in DOMAIN hist.undo : HookRank(hist.undo[i]) = n

\* C39: the row that the import inserts for a temporary pool carries the name the
\* user gave for the pool, also when it is made from an embedded Pool block, and
\* the pool loaded afterwards under that name is the row just inserted
C39_PoolRowUnderUserName ==
    \A i \in hist.poolRows :
        /\ i.row.name = i.user
        /\ (i.user \in DOMAIN pools /\ pools[i.user] # PoolIDTemporary)
                => pools[i.user] = i.row.id

(***************************************************************************)
(* Custom volumes: bounds and inputs                                       *)
(***************************************************************************)

Members == {"m1", "m2"}

\* the member that receives the requests and hosts the instances
LocalMember == "m1"

VolumePools == {"P", "Q"}

VolumeNames == {"a", "b"}

Instances == {"i1"}

\* the project of the instances, and of the volume named in the request URLs
InstanceProject == "default"

Requests == {"r1", "r2"}

NoDevice == [pool |-> "", name |-> ""]

Device(pool, name) == [pool |-> pool, name |-> name]

Volume(pool, project, name, location) ==
    [pool |-> pool, project |-> project, name |-> name, location |-> location]

ClusterChoices ==
    {[clustered |-> FALSE, offline |-> {}, remote |-> {}, daemon |-> d] : d \in BOOLEAN}
    \cup {[clustered |-> TRUE, offline |-> o, remote |-> rm, daemon |-> FALSE] :
            o \in {{}, {"m1"}, {"m2"}}, rm \in {{}, {"P"}}}

\* location column of a volume of the pool created on the member
LocationOf(c, pool, member) ==
    IF c.clustered /\ pool \notin c.remote THEN member ELSE ""

InitialVolumes(c) ==
    LET a  == Volume("P", InstanceProject, "a", LocationOf(c, "P", LocalMember))
        b  == Volume("P", InstanceProject, "b", LocationOf(c, "P", LocalMember))
        aq == Volume("Q", InstanceProject, "a", LocationOf(c, "Q", LocalMember))
    IN  {{a}, {a, b}, {a, aq}}

\* request bodies: api.StorageVolumesPost (create, copy) and api.StorageVolumePost
Body(name, pool, project, migration, target, location, refresh, sourceType, sourceName) ==
    [Name |-> name, Pool |-> pool, Project |-> project, Migration |-> migration,
     Target |-> target, Location |-> location, Refresh |-> refresh,
     SourceType |-> sourceType, SourceName |-> sourceName, SourcePool |-> "P"]

NoBody == Body("", "", "", FALSE, "", "", FALSE, "", "")

CreateBodies ==
    {Body(n, "", "", FALSE, "", "", rf, st[1], st[2]) :
        n \in VolumeNames, rf \in BOOLEAN, st \in {<<"", "">>, <<"copy", "a">>}}

PostBodies ==
    {Body(n, p, pr, FALSE, "", "", FALSE, "", "") :
        n \in VolumeNames, p \in {"", "Q"}, pr \in {"", "p2"}}
    \cup {Body("a", "P", "", TRUE, tl[1], tl[2], FALSE, "", "") :
            tl \in {<<"", "">>, <<"m2", "m1">>, <<"m1", "m1">>}}

IdleRequest ==
    [pc |-> "idle", kind |-> "", member |-> "", pool |-> "", project |-> "",
     name |-> "", req |-> NoBody, response |-> "none", op |-> "none",
     effects |-> {}, users |-> {}, exists |-> FALSE, usedRunning |-> FALSE]

(***************************************************************************)
(* Custom volumes: catalog and consumers                                   *)
(***************************************************************************)

\* tx.GetStoragePoolVolume(..., memberSpecific = true) and
\* tx.GetStoragePoolNodeVolumeID: rows of this member or without location
GetStoragePoolVolume(pool, project, name, member) ==
    {v \in volumes : /\ v.pool = pool /\ v.project = project /\ v.name = name
                     /\ v.location = LocationOf(cluster, pool, member)}

\* storagePools.LoadByName
LoadByName(pool) == pool \in VolumePools

\* the member a request on the volume is forwarded to
ForwardMember(pool, project, name) ==
    IF GetStoragePoolVolume(pool, project, name, LocalMember) # {} THEN LocalMember
    ELSE IF \E v \in volumes : v.pool = pool /\ v.project = project /\ v.name = name
    THEN (CHOOSE v \in volumes : v.pool = pool /\ v.project = project /\ v.name = name).location
    ELSE LocalMember

\* storagePools.VolumeUsedByInstanceDevices
UsedByInstances(pool, project, name) ==
    {i \in Instances : project = InstanceProject /\ devices[i] = Device(pool, name)}

UsedByRunning(pool, project, name) == UsedByInstances(pool, project, name) \cap running # {}

\* storagePools.VolumeUsedByDaemon
VolumeUsedByDaemon(pool, name) == cluster.daemon /\ pool = "P" /\ name = "a"

\* storagePoolVolumeUpdateUsers
UpdateUsers(devs, project, oldPool, oldName, newPool, newName) ==
    [i \in Instances |->
        IF project = InstanceProject /\ devs[i] = Device(oldPool, oldName)
        THEN Device(newPool, newName) ELSE devs[i]]

\* some volume of that name in the pool and project, on whichever member
TargetExists(pool, project, name) ==
    \E v \in volumes : v.pool = pool /\ v.project = project /\ v.name = name

Finish(q, resp) == [q EXCEPT !.pc = "done", !.response = resp]

FinishOp(q, status) == [q EXCEPT !.pc = "done", !.op = status]

StartOperation(q, pc) == [q EXCEPT !.pc = pc, !.response = "operation", !.op = "running"]

\* history: the volume of the request is still a device of a running instance
Observe(q) == [q EXCEPT !.usedRunning = @ /\ UsedByRunning(q.pool, q.project, q.name)]

\* the slots are taken in order
Free(r) == reqs[r].pc = "idle" /\ (r = "r2" => reqs["r1"].pc # "idle")

VolumesInit ==
    /\ cluster \in ClusterChoices
    /\ volumes \in InitialVolumes(cluster)
    /\ devices \in [Instances -> {NoDevice, Device("P", "a")}]
    /\ running \in SUBSET Instances
    /\ reqs = [r \in Requests |-> IdleRequest]

VolumesIdle ==
    /\ cluster = [clustered |-> FALSE, offline |-> {}, remote |-> {}, daemon |-> FALSE]
    /\ volumes = {}
    /\ devices = [i \in Instances |-> NoDevice]
    /\ running = {}
    /\ reqs = [r \in Requests |-> IdleRequest]

(***************************************************************************)
(* Custom volumes: create and copy (storagePoolVolumesPost)                *)
(***************************************************************************)

\* storagePoolVolumesPost: checks of the request, existence check, dispatch
StoragePoolVolumesPost(r) ==
    /\ Free(r)
    /\ \E body \in CreateBodies, m \in Members, allowed \in BOOLEAN :
        /\ ~cluster.clustered => m = LocalMember
        /\ LET dbVolume == GetStoragePoolVolume("P", InstanceProject, body.Name, m)
               q == [IdleRequest EXCEPT !.kind = "create", !.member = m, !.pool = "P",
                        !.project = InstanceProject, !.name = body.Name, !.req = body,
                        !.exists = TargetExists("P", InstanceProject, body.Name)]
           IN  reqs' = [reqs EXCEPT ![r] =
                   IF ~allowed THEN Finish(q, "Forbidden")
                   ELSE IF dbVolume # {} /\ ~body.Refresh THEN Finish(q, "Conflict")
                   ELSE IF body.SourceType = "copy" /\ dbVolume # {}
                   THEN StartOperation(q, "refresh")
                   ELSE IF body.SourceName = "" THEN [q EXCEPT !.pc = "create"]
                   ELSE StartOperation(q, "copy")]
    /\ UNCHANGED <<volumes, devices, running, cluster>>

\* doVolumeCreateOrCopy without a source: pool.CreateCustomVolume
DoVolumeCreate(r) ==
    /\ reqs[r].pc = "create"
    /\ \E fail \in BOOLEAN :
        LET q0 == reqs[r]
            q  == [q0 EXCEPT !.exists = @ \/ TargetExists(q0.pool, q0.project, q0.name)]
        IN  IF GetStoragePoolVolume(q.pool, q.project, q.name, q.member) # {}
            THEN /\ reqs' = [reqs EXCEPT ![r] = Finish(q, "Conflict")]
                 /\ volumes' = volumes
            ELSE IF fail
            THEN /\ reqs' = [reqs EXCEPT ![r] = Finish(q, "Error")]
                 /\ volumes' = volumes
            ELSE /\ reqs' = [reqs EXCEPT ![r] =
                        Finish([q EXCEPT !.effects = @ \cup {"created"}], "ok")]
                 /\ volumes' = volumes \cup
                        {Volume(q.pool, q.project, q.name,
                                LocationOf(cluster, q.pool, q.member))}
    /\ UNCHANGED <<devices, running, cluster>>

\* doVolumeCreateOrCopy with a source: pool.CreateCustomVolumeFromCopy
DoVolumeCopy(r) ==
    /\ reqs[r].pc = "copy"
    /\ \E fail \in BOOLEAN :
        LET q0 == reqs[r]
            q  == [q0 EXCEPT !.exists = @ \/ TargetExists(q0.pool, q0.project, q0.name)]
            src == GetStoragePoolVolume(q.req.SourcePool, q.project, q.req.SourceName,
                                        q.member)
        IN  IF fail \/ src = {}
               \/ GetStoragePoolVolume(q.pool, q.project, q.name, q.member) # {}
            THEN /\ reqs' = [reqs EXCEPT ![r] = FinishOp(q, "failure")]
                 /\ volumes' = volumes
            ELSE /\ reqs' = [reqs EXCEPT ![r] =
                        FinishOp([q EXCEPT !.effects = @ \cup {"created"}], "success")]
                 /\ volumes' = volumes \cup
                        {Volume(q.pool, q.project, q.name,
                                LocationOf(cluster, q.pool, q.member))}
    /\ UNCHANGED <<devices, running, cluster>>

\* doCustomVolumeRefresh: pool.RefreshCustomVolume reuses the destination
DoCustomVolumeRefresh(r) ==
    /\ reqs[r].pc = "refresh"
    /\ \E fail \in BOOLEAN :
        LET q == reqs[r]
            src == GetStoragePoolVolume(q.req.SourcePool, q.project, q.req.SourceName,
                                        q.member)
        IN  reqs' = [reqs EXCEPT ![r] =
                IF fail \/ q.req.SourceName = "" \/ src = {}
                   \/ GetStoragePoolVolume(q.pool, q.project, q.name, q.member) = {}
                THEN FinishOp(q, "failure")
                ELSE FinishOp([q EXCEPT !.effects = @ \cup {"refreshed"}], "success")]
    /\ UNCHANGED <<volumes, devices, running, cluster>>

(***************************************************************************)
(* Custom volumes: rename, move and migrate (storagePoolVolumePost)        *)
(***************************************************************************)

TargetProject(q) == IF q.req.Project # "" THEN q.req.Project ELSE q.project

TargetPool(q) == IF q.req.Pool # "" THEN q.req.Pool ELSE q.pool

\* the request is a cross-member move
CrossMember(body) ==
    cluster.clustered /\ body.Target # "" /\ body.Location # "" /\ body.Migration

\* a rename request, as opposed to a move
IsRename(q) == (q.req.Pool = "" \/ q.req.Pool = q.pool) /\ q.project = TargetProject(q)

\* storagePoolVolumePost up to its first decision: the cross-member branch, the
\* migration source, or the check that the new name is free
StoragePoolVolumePost(r) ==
    /\ Free(r)
    /\ \E body \in PostBodies :
        LET sourceNodeOffline == body.Location \in cluster.offline
            q0 == [IdleRequest EXCEPT !.pool = "P", !.project = InstanceProject,
                      !.name = "a", !.req = body]
            member == IF CrossMember(body)
                      THEN (IF sourceNodeOffline THEN body.Target ELSE body.Location)
                      ELSE ForwardMember(q0.pool, q0.project, q0.name)
            kind == IF CrossMember(body) THEN "migrate"
                    ELSE IF body.Migration THEN "source"
                    ELSE IF IsRename(q0) THEN "rename" ELSE "move"
            q == [q0 EXCEPT !.kind = kind, !.member = member,
                     !.exists = TargetExists(TargetPool(q0), TargetProject(q0), body.Name),
                     !.usedRunning = UsedByRunning(q0.pool, q0.project, q0.name)]
        IN  reqs' = [reqs EXCEPT ![r] =
                IF CrossMember(body)
                THEN IF sourceNodeOffline /\ q.pool \in cluster.remote
                     THEN IF GetStoragePoolVolume(q.pool, q.project, q.name, member) = {}
                          THEN Finish(q, "NotFound")
                          ELSE [q EXCEPT !.pc = "rename_users", !.req.Pool = "",
                                         !.req.Project = ""]
                     ELSE IF body.Target \in cluster.offline THEN Finish(q, "BadRequest")
                     ELSE StartOperation(q, "migrate")
                ELSE IF body.Migration THEN StartOperation(q, "source")
                ELSE IF GetStoragePoolVolume(TargetPool(q), TargetProject(q), body.Name,
                                             member) # {}
                THEN Finish(q, "Conflict")
                ELSE [q EXCEPT !.pc = "post_load"]]
    /\ UNCHANGED <<volumes, devices, running, cluster>>

\* storagePoolVolumeTypePostMigration: the source side of a migration
MigrationSource(r) ==
    /\ reqs[r].pc = "source"
    /\ \E fail \in BOOLEAN :
        reqs' = [reqs EXCEPT ![r] =
                    FinishOp(reqs[r], IF fail THEN "failure" ELSE "success")]
    /\ UNCHANGED <<volumes, devices, running, cluster>>

\* storagePoolVolumePost: VolumeUsedByDaemon and the load of the source volume
VolumePostLoad(r) ==
    /\ reqs[r].pc = "post_load"
    /\ LET q == Observe(reqs[r])
       IN  reqs' = [reqs EXCEPT ![r] =
               IF VolumeUsedByDaemon(q.pool, q.name) THEN Finish(q, "Error")
               ELSE IF GetStoragePoolVolume(q.pool, q.project, q.name, q.member) = {}
               THEN Finish(q, "NotFound")
               ELSE [q EXCEPT !.pc = "post_running"]]
    /\ UNCHANGED <<volumes, devices, running, cluster>>

\* storagePoolVolumePost: the running-instance check and the rename / move dispatch
VolumePostCheckRunning(r) ==
    /\ reqs[r].pc = "post_running"
    /\ LET q == Observe(reqs[r])
       IN  reqs' = [reqs EXCEPT ![r] =
               IF UsedByRunning(q.pool, q.project, q.name) THEN Finish(q, "Error")
               ELSE IF IsRename(q) THEN [q EXCEPT !.pc = "rename_users"]
               ELSE IF ~LoadByName(q.pool) \/ ~LoadByName(q.req.Pool)
               THEN Finish(q, "NotFound")
               ELSE StartOperation(q, "move_users")]
    /\ UNCHANGED <<volumes, devices, running, cluster>>

\* the instances whose device differs between the two maps
Changed(devs1, devs2) == {i \in Instances : devs1[i] # devs2[i]}

\* storagePoolVolumeTypePostRename: storagePoolVolumeUpdateUsers
RenameUpdateUsers(r) ==
    /\ reqs[r].pc = "rename_users"
    /\ \E fail \in BOOLEAN :
        LET q == Observe(reqs[r])
            devs == UpdateUsers(devices, q.project, q.pool, q.name, q.pool, q.req.Name)
        IN  IF fail
            THEN /\ reqs' = [reqs EXCEPT ![r] = Finish(q, "Error")]
                 /\ devices' = devices
            ELSE /\ reqs' = [reqs EXCEPT ![r] =
                        [q EXCEPT !.pc = "rename_volume",
                                  !.users = Changed(devices, devs),
                                  !.exists = @ \/ TargetExists(q.pool, q.project,
                                                               q.req.Name)]]
                 /\ devices' = devs
    /\ UNCHANGED <<volumes, running, cluster>>

\* storagePoolVolumeTypePostRename: pool.RenameCustomVolume; the reverter of the
\* function holds no hook, so a failure undoes nothing
RenameCustomVolume(r) ==
    /\ reqs[r].pc = "rename_volume"
    /\ \E fail \in BOOLEAN :
        LET q == reqs[r]
            src == GetStoragePoolVolume(q.pool, q.project, q.name, q.member)
            dst == GetStoragePoolVolume(q.pool, q.project, q.req.Name, q.member)
        IN  IF fail \/ src = {} \/ dst # {}
            THEN /\ reqs' = [reqs EXCEPT ![r] = Finish(q, "Error")]
                 /\ volumes' = volumes
            ELSE /\ reqs' = [reqs EXCEPT ![r] =
                        Finish([q EXCEPT !.effects = @ \cup {"renamed"}], "ok")]
                 /\ volumes' = (volumes \ src)
                        \cup {[v EXCEPT !.name = q.req.Name] : v \in src}
    /\ UNCHANGED <<devices, running, cluster>>

\* the hook of storagePoolVolumeTypePostMove: storagePoolVolumeUpdateUsers back
\* to the source, called with the target project
MoveRevertUsers(q, devs) ==
    UpdateUsers(devs, TargetProject(q), q.req.Pool, q.req.Name, q.pool, q.name)

\* the request after its reverter ran: the instances it still leaves changed
MoveReverted(q) ==
    [q EXCEPT !.users = {i \in @ : MoveRevertUsers(q, devices)[i] = devices[i]}]

\* the order of the steps of run: the consumers, then the copy, then the delete
MoveStepAfter_DeleteFirst(pc) == "move_delete"

MoveStepAfter(pc) == IF pc = "move_users" THEN "move_copy" ELSE "move_delete"

\* storagePoolVolumeTypePostMove, run: storagePoolVolumeUpdateUsers
MoveUpdateUsers(r) ==
    /\ reqs[r].pc = "move_users"
    /\ \E fail \in BOOLEAN :
        LET q == reqs[r]
            devs == UpdateUsers(devices, q.project, q.pool, q.name, q.req.Pool,
                                q.req.Name)
        IN  IF fail
            THEN /\ reqs' = [reqs EXCEPT ![r] = FinishOp(q, "failure")]
                 /\ devices' = devices
            ELSE /\ reqs' = [reqs EXCEPT ![r] =
                        [q EXCEPT !.pc = MoveStepAfter("move_users"),
                                  !.users = Changed(devices, devs),
                                  !.exists = @ \/ TargetExists(q.req.Pool,
                                                    TargetProject(q), q.req.Name)]]
                 /\ devices' = devs
    /\ UNCHANGED <<volumes, running, cluster>>

\* storagePoolVolumeTypePostMove, run: newPool.CreateCustomVolumeFromCopy
MoveCopy(r) ==
    /\ reqs[r].pc = "move_copy"
    /\ \E fail \in BOOLEAN :
        LET q == reqs[r]
            src == GetStoragePoolVolume(q.pool, q.project, q.name, q.member)
            dst == GetStoragePoolVolume(q.req.Pool, TargetProject(q), q.req.Name,
                                        q.member)
        IN  IF fail \/ src = {} \/ dst # {}
            THEN /\ reqs' = [reqs EXCEPT ![r] = FinishOp(MoveReverted(q), "failure")]
                 /\ devices' = MoveRevertUsers(q, devices)
                 /\ volumes' = volumes
            ELSE /\ reqs' = [reqs EXCEPT ![r] =
                        [q EXCEPT !.pc = MoveStepAfter("move_copy"),
                                  !.effects = @ \cup {"copied"}]]
                 /\ devices' = devices
                 /\ volumes' = volumes \cup
                        {Volume(q.req.Pool, TargetProject(q), q.req.Name,
                                LocationOf(cluster, q.req.Pool, q.member))}
    /\ UNCHANGED <<running, cluster>>

\* storagePoolVolumeTypePostMove, run: pool.DeleteCustomVolume
MoveDelete(r) ==
    /\ reqs[r].pc = "move_delete"
    /\ \E fail \in BOOLEAN :
        LET q == reqs[r]
            src == GetStoragePoolVolume(q.pool, q.project, q.name, q.member)
        IN  IF fail \/ src = {}
            THEN /\ reqs' = [reqs EXCEPT ![r] = FinishOp(MoveReverted(q), "failure")]
                 /\ devices' = MoveRevertUsers(q, devices)
                 /\ volumes' = volumes
            ELSE /\ reqs' = [reqs EXCEPT ![r] =
                        FinishOp([q EXCEPT !.effects = @ \cup {"deleted"}], "success")]
                 /\ devices' = devices
                 /\ volumes' = volumes \ src
    /\ UNCHANGED <<running, cluster>>

\* migrateStorageVolume and storageVolumePostClusteringMigrate up to the creation
\* of the volume on the target member
MigrateStorageVolume(r) ==
    /\ reqs[r].pc = "migrate"
    /\ \E fail \in BOOLEAN :
        LET q == Observe(reqs[r])
            src == GetStoragePoolVolume(q.pool, TargetProject(q), q.name, q.member)
            dst == GetStoragePoolVolume(q.req.Pool, TargetProject(q), q.req.Name,
                                        q.req.Target)
        IN  IF \/ q.req.Target = q.req.Location
               \/ q.req.Location \in cluster.offline
               \/ fail \/ src = {} \/ ~LoadByName(q.req.Pool) \/ dst # {}
            THEN /\ reqs' = [reqs EXCEPT ![r] = FinishOp(q, "failure")]
                 /\ volumes' = volumes
            ELSE /\ reqs' = [reqs EXCEPT ![r] =
                        [q EXCEPT !.pc = "migrate_delete",
                                  !.effects = @ \cup {"transferred"}]]
                 /\ volumes' = volumes \cup
                        {Volume(q.req.Pool, TargetProject(q), q.req.Name,
                                LocationOf(cluster, q.req.Pool, q.req.Target))}
    /\ UNCHANGED <<devices, running, cluster>>

\* storageVolumePostClusteringMigrate, source operation: srcPool.DeleteCustomVolume
MigrateDeleteSource(r) ==
    /\ reqs[r].pc = "migrate_delete"
    /\ \E fail \in BOOLEAN :
        LET q == reqs[r]
            src == GetStoragePoolVolume(q.pool, TargetProject(q), q.name, q.member)
        IN  IF fail \/ src = {}
            THEN /\ reqs' = [reqs EXCEPT ![r] = FinishOp(q, "failure")]
                 /\ volumes' = volumes
            ELSE /\ reqs' = [reqs EXCEPT ![r] =
                        FinishOp([q EXCEPT !.effects = @ \cup {"deleted"}], "success")]
                 /\ volumes' = volumes \ src
    /\ UNCHANGED <<devices, running, cluster>>

(***************************************************************************)
(* Custom volumes: delete (storagePoolVolumeDelete)                        *)
(***************************************************************************)

\* storagePoolVolumeDelete: the load of the volume
StoragePoolVolumeDelete(r) ==
    /\ Free(r)
    /\ \E name \in VolumeNames :
        LET q0 == [IdleRequest EXCEPT !.kind = "delete", !.pool = "P",
                      !.project = InstanceProject, !.name = name]
            q == [q0 EXCEPT !.member = ForwardMember(q0.pool, q0.project, name),
                     !.usedRunning = UsedByRunning(q0.pool, q0.project, name)]
        IN  reqs' = [reqs EXCEPT ![r] =
                IF GetStoragePoolVolume(q.pool, q.project, q.name, q.member) = {}
                THEN Finish(q, "NotFound")
                ELSE [q EXCEPT !.pc = "delete_usedby"]]
    /\ UNCHANGED <<volumes, devices, running, cluster>>

\* storagePoolVolumeDelete: storagePoolVolumeUsedByGet and the in-use test
VolumeDeleteCheckUsedBy(r) ==
    /\ reqs[r].pc = "delete_usedby"
    /\ LET q == Observe(reqs[r])
       IN  reqs' = [reqs EXCEPT ![r] =
               IF UsedByInstances(q.pool, q.project, q.name) # {}
               THEN Finish(q, "BadRequest")
               ELSE [q EXCEPT !.pc = "delete_volume"]]
    /\ UNCHANGED <<volumes, devices, running, cluster>>

\* storagePoolVolumeDelete: pool.DeleteCustomVolume
VolumeDeleteCustomVolume(r) ==
    /\ reqs[r].pc = "delete_volume"
    /\ \E fail \in BOOLEAN :
        LET q == reqs[r]
            src == GetStoragePoolVolume(q.pool, q.project, q.name, q.member)
        IN  IF fail \/ src = {}
            THEN /\ reqs' = [reqs EXCEPT ![r] = Finish(q, "Error")]
                 /\ volumes' = volumes
            ELSE /\ reqs' = [reqs EXCEPT ![r] =
                        Finish([q EXCEPT !.effects = @ \cup {"deleted"}], "ok")]
                 /\ volumes' = volumes \ src
    /\ UNCHANGED <<devices, running, cluster>>

\* an instance is started
InstanceStart(i) ==
    /\ i \notin running
    /\ running' = running \cup {i}
    /\ UNCHANGED <<volumes, devices, cluster, reqs>>

VolumesNext ==
    \/ \E r \in Requests : StoragePoolVolumesPost(r) /\ UNCHANGED outsideVolumes
    \/ \E r \in Requests : DoVolumeCreate(r) /\ UNCHANGED outsideVolumes
    \/ \E r \in Requests : DoVolumeCopy(r) /\ UNCHANGED outsideVolumes
    \/ \E r \in Requests : DoCustomVolumeRefresh(r) /\ UNCHANGED outsideVolumes
    \/ \E r \in Requests : StoragePoolVolumePost(r) /\ UNCHANGED outsideVolumes
    \/ \E r \in Requests : MigrationSource(r) /\ UNCHANGED outsideVolumes
    \/ \E r \in Requests : VolumePostLoad(r) /\ UNCHANGED outsideVolumes
    \/ \E r \in Requests : VolumePostCheckRunning(r) /\ UNCHANGED outsideVolumes
    \/ \E r \in Requests : RenameUpdateUsers(r) /\ UNCHANGED outsideVolumes
    \/ \E r \in Requests : RenameCustomVolume(r) /\ UNCHANGED outsideVolumes
    \/ \E r \in Requests : MoveUpdateUsers(r) /\ UNCHANGED outsideVolumes
    \/ \E r \in Requests : MoveCopy(r) /\ UNCHANGED outsideVolumes
    \/ \E r \in Requests : MoveDelete(r) /\ UNCHANGED outsideVolumes
    \/ \E r \in Requests : MigrateStorageVolume(r) /\ UNCHANGED outsideVolumes
    \/ \E r \in Requests : MigrateDeleteSource(r) /\ UNCHANGED outsideVolumes
    \/ \E r \in Requests : StoragePoolVolumeDelete(r) /\ UNCHANGED outsideVolumes
    \/ \E r \in Requests : VolumeDeleteCheckUsedBy(r) /\ UNCHANGED outsideVolumes
    \/ \E r \in Requests : VolumeDeleteCustomVolume(r) /\ UNCHANGED outsideVolumes
    \/ \E i \in Instances : InstanceStart(i) /\ UNCHANGED outsideVolumes

(***************************************************************************)
(* Custom volumes: properties                                              *)
(***************************************************************************)

Finished(r) == reqs[r].pc = "done"

\* the request ended in an error response or in a failed operation
Rejected(r) ==
    \/ reqs[r].response \in {"Conflict", "BadRequest", "NotFound", "Forbidden", "Error"}
    \/ reqs[r].op = "failure"

\* the request left no row, volume or consumer reference changed
ChangedNothing(r) == reqs[r].effects = {} /\ reqs[r].users = {}

UniqueNames ==
    \A v1, v2 \in volumes :
        (v1.pool = v2.pool /\ v1.project = v2.project /\ v1.name = v2.name) => v1 = v2

TargetTakenRejected ==
    \A r \in Requests :
        ( /\ Finished(r)
          /\ reqs[r].kind \in {"create", "rename", "move"}
          /\ ~reqs[r].req.Refresh
          /\ reqs[r].exists )
        => (Rejected(r) /\ ChangedNothing(r))

\* C1: the catalog never holds two custom volumes with the same name in the same
\* pool and project, and a create (without refresh), rename or move whose target
\* name already exists is rejected and changes nothing
C1_UniqueNamesAndConflict == UniqueNames /\ TargetTakenRejected

\* C10: a rename, move, cross-member migration or delete of a custom volume that
\* is a device of a running instance is rejected and changes nothing
C10_RunningConsumerRejects ==
    \A r \in Requests :
        ( /\ Finished(r)
          /\ reqs[r].kind \in {"rename", "move", "migrate", "delete"}
          /\ reqs[r].usedRunning )
        => (Rejected(r) /\ ChangedNothing(r))

\* the request passed its checks and has a mutation of its volume or of the
\* consumers of its volume ahead or under way
UnderMutation(r) ==
    /\ reqs[r].kind \in {"rename", "move", "delete"}
    /\ reqs[r].pc \in {"rename_users", "rename_volume", "move_users", "move_copy",
                       "move_delete", "delete_volume"}

\* the instance has the volume of the request as a device, under its old or,
\* once the request has updated the device, under its new name and pool
Consumes(i, r) ==
    \/ /\ reqs[r].project = InstanceProject
       /\ devices[i] = Device(reqs[r].pool, reqs[r].name)
    \/ i \in reqs[r].users

\* C11: no instance is running while a volume it consumes is being renamed, moved
\* or deleted: no instance start falls between the running-instance check of the
\* request and the mutation the check guards
C11_NoRunningConsumerUnderMutation ==
    \A r \in Requests : UnderMutation(r) => \A i \in running : ~Consumes(i, r)

\* the request has performed a mutation of the catalog and has the next one
\* still ahead
Mutating(r) ==
    /\ reqs[r].kind \in {"rename", "move"}
    /\ reqs[r].pc \in {"rename_volume", "move_copy", "move_delete"}

SameIdentity(r1, r2) ==
    /\ reqs[r1].pool = reqs[r2].pool
    /\ reqs[r1].project = reqs[r2].project
    /\ reqs[r1].name = reqs[r2].name

\* C12: two mutating requests on the same volume identity never perform their
\* mutations concurrently: the second starts its mutation only after the first
\* has finished
C12_MutationsSerialized ==
    \A r1, r2 \in Requests :
        (r1 # r2 /\ SameIdentity(r1, r2)) => ~(Mutating(r1) /\ Mutating(r2))

\* the move of request r reaches success in this step
MoveSucceeds(r) ==
    reqs[r].kind = "move" /\ reqs[r].pc = "move_delete" /\ reqs'[r].op = "success"

\* the state after a move: the volume is on the target and no longer on the
\* source, and the devices the move updated reference the target
Moved(q, vols, devs) ==
    /\ \E v \in vols : /\ v.pool = q.req.Pool /\ v.project = TargetProject(q)
                       /\ v.name = q.req.Name
                       /\ v.location = LocationOf(cluster, q.req.Pool, q.member)
    /\ ~\E v \in vols : /\ v.pool = q.pool /\ v.project = q.project /\ v.name = q.name
                        /\ v.location = LocationOf(cluster, q.pool, q.member)
    /\ \A i \in Instances :
        /\ q.project = InstanceProject => devs[i] # Device(q.pool, q.name)
        /\ i \in q.users => devs[i] = Device(q.req.Pool, q.req.Name)

\* C13: after a successful move of a custom volume from pool P to pool Q the
\* volume exists on Q and not on P, and every device that referenced the volume
\* on P references the volume on Q
C13_MovedVolumeAndConsumers ==
    [][\A r \in Requests : MoveSucceeds(r) => Moved(reqs[r], volumes', devices')]_vars

\* C14: when a move has failed, at whichever step, every consumer references the
\* source pool and volume again and the move has left no volume on the
\* destination pool
C14_FailedMoveUndone ==
    \A r \in Requests :
        (Finished(r) /\ reqs[r].kind = "move" /\ reqs[r].op = "failure")
        => (reqs[r].users = {} /\ "copied" \notin reqs[r].effects)

\* C15: in a local move and in a cross-member migration the source volume is
\* deleted only after the row of the destination volume has been committed; when
\* the copy or the transfer fails the source volume is never deleted
C15_SourceDeletedAfterDestination ==
    \A r \in Requests :
        (reqs[r].kind \in {"move", "migrate"} /\ "deleted" \in reqs[r].effects)
        => ("copied" \in reqs[r].effects \/ "transferred" \in reqs[r].effects)

C15_Witness ==
    \E r \in Requests :
        /\ reqs[r].kind = "move"
        /\ reqs[r].op = "success"
        /\ reqs[r].effects = {"copied", "deleted"}

\* the request asks for a move to another project within its pool
AcrossProjects(q) ==
    /\ q.kind = "move"
    /\ q.req.Pool \in {"", q.pool}
    /\ TargetProject(q) # q.project

\* the request passes its last check in this step
Dispatched(r) ==
    /\ reqs[r].pc = "post_running"
    /\ reqs'[r] # reqs[r]
    /\ ~UsedByRunning(reqs[r].pool, reqs[r].project, reqs[r].name)

\* the volume of the request is in the target project of its pool and no longer
\* in the source project
InTargetProject(q, vols) ==
    /\ \E v \in vols : /\ v.pool = q.pool /\ v.project = TargetProject(q)
                       /\ v.name = q.req.Name
    /\ ~\E v \in vols : /\ v.pool = q.pool /\ v.project = q.project /\ v.name = q.name
                        /\ v.location = LocationOf(cluster, q.pool, q.member)

\* C16: a POST without migration, with an empty pool or the pool of the volume,
\* and with another project is carried out as a move across projects: it starts
\* the move operation, and on success the volume is in the target project on the
\* same pool and no longer in the source project
C16_MoveAcrossProjects ==
    [][\A r \in Requests :
        AcrossProjects(reqs[r]) =>
            /\ Dispatched(r) => reqs'[r].response = "operation"
            /\ MoveSucceeds(r) => InTargetProject(reqs[r], volumes')]_vars

\* the rename of request r succeeds in this step
RenameSucceeds(r) ==
    reqs[r].kind = "rename" /\ reqs[r].pc = "rename_volume" /\ reqs'[r].response = "ok"

\* the state after a rename: a volume of the new name and none of the old name in
\* the pool and project, and the consumers on the new name
Renamed(q, vols, devs) ==
    /\ \E v \in vols : v.pool = q.pool /\ v.project = q.project /\ v.name = q.req.Name
    /\ ~\E v \in vols : /\ v.pool = q.pool /\ v.project = q.project /\ v.name = q.name
                        /\ v.location = LocationOf(cluster, q.pool, q.member)
    /\ \A i \in Instances :
        /\ q.project = InstanceProject => devs[i] # Device(q.pool, q.name)
        /\ i \in q.users => devs[i] = Device(q.pool, q.req.Name)

\* C17: a POST that carries only a new name is carried out as a rename: on success
\* a volume of the new name exists in the same pool and project, none of the old
\* name does, and every consumer of the old name references the new name
C17_RenamedVolumeAndConsumers ==
    [][\A r \in Requests :
        /\ (Dispatched(r) /\ IsRename(reqs[r]) /\ reqs[r].kind = "rename")
                => reqs'[r].pc = "rename_users"
        /\ RenameSucceeds(r) => Renamed(reqs[r], volumes', devices')]_vars

\* a cross-member move whose source member is offline
OfflineSourceMove(q) ==
    q.kind = "migrate" /\ q.pc # "idle" /\ q.req.Location \in cluster.offline

\* the request runs as a rename: no operation, nothing copied, transferred or deleted
PlainRename(q) ==
    /\ q.pc \in {"rename_users", "rename_volume", "done"}
    /\ q.response # "operation"
    /\ q.effects \cap {"copied", "transferred", "deleted"} = {}

\* C23: a cross-member move whose source member is offline is answered with
\* BadRequest and leaves the volume untouched when the driver of the pool is not
\* remote, and is carried out as a plain rename when it is remote
C23_OfflineSourceMove ==
    \A r \in Requests :
        OfflineSourceMove(reqs[r]) =>
            IF reqs[r].pool \in cluster.remote
            THEN PlainRename(reqs[r])
            ELSE reqs[r].response = "BadRequest" /\ reqs[r].effects = {}

\* C24: a cross-member move whose target member is the current location of the
\* volume is rejected with BadRequest, and the volume is neither transferred nor
\* deleted
C24_MoveToCurrentLocation ==
    \A r \in Requests :
        (/\ reqs[r].kind = "migrate"
         /\ reqs[r].pc # "idle"
         /\ reqs[r].req.Target = reqs[r].req.Location) =>
            /\ reqs[r].response = "BadRequest"
            /\ reqs[r].effects \cap {"transferred", "deleted"} = {}

\* the driver rename of request r, the only request under way, fails in this step
RenameFails(r) ==
    /\ reqs[r].kind = "rename"
    /\ reqs[r].pc = "rename_volume"
    /\ reqs'[r].response = "Error"
    /\ \A o \in Requests \ {r} : reqs[o].pc \in {"idle", "done"}

\* the state before a rename: the volume under its old name, and the consumers
\* that the request had changed on the old name
NotRenamed(q, vols, devs) ==
    /\ \E v \in vols : v.pool = q.pool /\ v.project = q.project /\ v.name = q.name
    /\ \A i \in q.users : devs[i] = Device(q.pool, q.name)

\* C38: when the driver rename fails, the devices of the consumers name the old
\* volume, as before the request, and the old volume still exists
C38_FailedRenameLeavesConsumers ==
    [][\A r \in Requests :
        RenameFails(r) => NotRenamed(reqs[r], volumes', devices')]_vars

(***************************************************************************)
(* Snapshot names (storage_volumes_snapshot.go)                            *)
(***************************************************************************)

\* largest index that the modelled snapshot names carry
MaxIndex == 2

\* a pattern is the sequence of its pieces: "%d", a template or literal text
Pattern(set, tokens) == [set |-> set, tokens |-> tokens]

PatternChoices ==
    { Pattern(FALSE, <<>>), Pattern(TRUE, <<>>), Pattern(TRUE, <<"snap", "%d">>),
      Pattern(TRUE, <<"foo">>), Pattern(TRUE, <<"%d", "-", "%d">>),
      Pattern(TRUE, <<"{{ creation_date }}">>), Pattern(TRUE, <<"{{">>) }

SnapshotNames == {"snap0", "snap1", "foo", "T1"}

Times == {"T1", "T2"}

RECURSIVE Concat(_)
Concat(tokens) ==
    IF tokens = <<>> THEN "" ELSE Head(tokens) \o Concat(Tail(tokens))

\* strings.Count(pattern, "%d")
Count(tokens) == Cardinality({k \in DOMAIN tokens : tokens[k] = "%d"})

\* internalUtil.RenderTemplate with creation_date
RenderTemplate(tokens, now) ==
    IF \E k \in DOMAIN tokens : tokens[k] = "{{"
    THEN [err |-> TRUE, tokens |-> <<>>]
    ELSE [err |-> FALSE,
          tokens |-> [k \in DOMAIN tokens |->
                        IF tokens[k] = "{{ creation_date }}" THEN now ELSE tokens[k]]]

\* strings.Replace(pattern, "%d", s, 1)
RECURSIVE Replace(_, _)
Replace(tokens, s) ==
    IF tokens = <<>> THEN ""
    ELSE IF Head(tokens) = "%d" THEN s \o Concat(Tail(tokens))
    ELSE Head(tokens) \o Replace(Tail(tokens), s)

\* fmt.Sprintf(pattern, i): the first %d takes the argument, every further one
\* is reported missing, an argument without a verb is reported extra
RECURSIVE SprintfRest(_)
SprintfRest(tokens) ==
    IF tokens = <<>> THEN ""
    ELSE (IF Head(tokens) = "%d" THEN "%!d(MISSING)" ELSE Head(tokens))
         \o SprintfRest(Tail(tokens))

RECURSIVE SprintfFirst(_, _)
SprintfFirst(tokens, s) ==
    IF tokens = <<>> THEN ""
    ELSE IF Head(tokens) = "%d" THEN s \o SprintfRest(Tail(tokens))
    ELSE Head(tokens) \o SprintfFirst(Tail(tokens), s)

Sprintf(tokens, i) ==
    IF Count(tokens) = 0 THEN Concat(tokens) \o "%!(EXTRA int=" \o ToString(i) \o ")"
    ELSE SprintfFirst(tokens, ToString(i))

\* tx.GetNextStorageVolumeSnapshotIndex: one more than the largest index among
\* the snapshots whose name matches the pattern
GetNextStorageVolumeSnapshotIndex(tokens, existing) ==
    LET used == {n \in 0..MaxIndex :
                    Count(tokens) = 1 /\ Replace(tokens, ToString(n)) \in existing}
    IN  IF used = {} THEN 0 ELSE (CHOOSE n \in used : \A k \in used : k <= n) + 1

\* pool.ValidateName
ValidateName(name) == name # ""

SnapshotName(name) == [err |-> "", name |-> name]

SnapshotNameError(err) == [err |-> err, name |-> ""]

\* storagePoolVolumeSnapshotsTypePost: the name of a snapshot created without one
ManualSnapshotName(cfg, existing, now) ==
    LET pattern == IF ~cfg.set \/ cfg.tokens = <<>> THEN <<"snap", "%d">> ELSE cfg.tokens
        rendered == RenderTemplate(pattern, now)
        i == GetNextStorageVolumeSnapshotIndex(rendered.tokens, existing)
        name == Sprintf(rendered.tokens, i)
    IN  IF rendered.err THEN SnapshotNameError("InternalError")
        ELSE IF ~ValidateName(name) THEN SnapshotNameError("BadRequest")
        ELSE SnapshotName(name)

\* volumeDetermineNextSnapshotName(volume, "snap%d"); others are the snapshot
\* names of the volumes of the same name in the other pools and projects
VolumeDetermineNextSnapshotName(cfg, existing, others, now) ==
    LET pattern == IF ~cfg.set THEN <<"snap", "%d">> ELSE cfg.tokens
        rendered == RenderTemplate(pattern, now)
        i == GetNextStorageVolumeSnapshotIndex(rendered.tokens, existing)
        snapshotExists == Concat(rendered.tokens) \in existing \cup others
    IN  IF rendered.err THEN SnapshotNameError("Error")
        ELSE IF Count(rendered.tokens) > 1 THEN SnapshotNameError("Error")
        ELSE IF Count(rendered.tokens) = 1
        THEN SnapshotName(Replace(rendered.tokens, ToString(i)))
        ELSE IF snapshotExists THEN SnapshotName(Replace(rendered.tokens, ToString(i)))
        ELSE SnapshotName(Concat(rendered.tokens))

IdleNaming ==
    [pc |-> "idle", mode |-> "", cfg |-> Pattern(FALSE, <<>>), existing |-> {},
     others |-> {}, now |-> "T1", result |-> SnapshotName("")]

NamesIdle == naming = IdleNaming

NamesInit ==
    \E cfg \in PatternChoices, ex \in SUBSET SnapshotNames, ot \in {{}, {"foo"}},
       now \in Times :
        naming = [IdleNaming EXCEPT !.pc = "ready", !.cfg = cfg, !.existing = ex,
                                    !.others = ot, !.now = now]

\* a snapshot is created by hand without a name
SnapshotsPostName ==
    /\ naming.pc = "ready"
    /\ naming' = [naming EXCEPT !.pc = "done", !.mode = "manual",
                     !.result = ManualSnapshotName(naming.cfg, naming.existing,
                                                   naming.now)]

\* a snapshot is created by the scheduler
AutoCreateName ==
    /\ naming.pc = "ready"
    /\ naming' = [naming EXCEPT !.pc = "done", !.mode = "scheduled",
                     !.result = VolumeDetermineNextSnapshotName(naming.cfg,
                                    naming.existing, naming.others, naming.now)]

NamesNext ==
    \/ SnapshotsPostName /\ UNCHANGED outsideNames
    \/ AutoCreateName /\ UNCHANGED outsideNames

\* C9: the name chosen for a snapshot created without a user-supplied name, by
\* hand or by the scheduler, under a pattern with at most one %d, is not the
\* name of an existing snapshot of the volume
C9_ChosenNameIsFresh ==
    ( /\ naming.pc = "done"
      /\ naming.result.err = ""
      /\ Count(naming.cfg.tokens) <= 1 )
    => naming.result.name \notin naming.existing

\* the pattern of the naming request after the default and the template
RenderedPattern ==
    RenderTemplate(IF ~naming.cfg.set THEN <<"snap", "%d">> ELSE naming.cfg.tokens,
                   naming.now)

\* the scheduler has derived a name, or an error, from a pattern that renders
ScheduledNameDerived ==
    /\ naming.pc = "done"
    /\ naming.mode = "scheduled"
    /\ ~RenderedPattern.err

\* the name of the rendered pattern with at most one %d, by the rule of the
\* specification
NameByRule(tokens, index, existing) ==
    IF Count(tokens) = 1 THEN Replace(tokens, index)
    ELSE IF Concat(tokens) \in existing THEN Concat(tokens) \o index
    ELSE Concat(tokens)

\* C34: the scheduled name is an error for a pattern with more than one %d, the
\* pattern with %d replaced by the index for one %d, and without %d the pattern
\* itself, with the index appended when a snapshot of that name exists
C34_ScheduledNameFromPattern ==
    ScheduledNameDerived =>
        LET tokens == RenderedPattern.tokens
            index == ToString(GetNextStorageVolumeSnapshotIndex(tokens, naming.existing))
        IN  IF Count(tokens) > 1 THEN naming.result.err # ""
            ELSE /\ naming.result.err = ""
                 /\ naming.result.name =
                        NameByRule(tokens, index, naming.existing \cup naming.others)

\* the names, or the errors, that the two ways of creation derive are the same
SameName(a, b) ==
    IF a.err # "" \/ b.err # "" THEN a.err # "" /\ b.err # ""
    ELSE a.name = b.name

\* C37: for the same config and the same existing snapshots, the creation by
\* hand without a name and the scheduled creation derive the same name, and
\* both fail for a pattern with more than one %d
C37_ManualAndScheduledAgree ==
    naming.pc = "done" =>
        /\ SameName(naming.result,
                    IF naming.mode = "manual"
                    THEN VolumeDetermineNextSnapshotName(naming.cfg, naming.existing,
                                                         naming.others, naming.now)
                    ELSE ManualSnapshotName(naming.cfg, naming.existing, naming.now))
        /\ Count(naming.cfg.tokens) > 1 => naming.result.err # ""

(***************************************************************************)
(* Snapshot scheduler: bounds and inputs                                   *)
(***************************************************************************)

\* number of scheduler ticks that a behaviour runs, over all members
MaxTicks == 2

MemberIDs == {1, 2}

\* v.NodeID of a volume on a remote driver
RemoteNode == -1

EveryMinute == "* * * * *"

SchedVolume(node, schedule, allow, pattern) ==
    [id |-> 1, name |-> "vol1", node |-> node, schedule |-> schedule,
     allow |-> allow, pattern |-> pattern]

Snapshot(id, name, node, expired) ==
    [id |-> id, name |-> name, node |-> node, expired |-> expired]

SchedVolumes ==
    {SchedVolume(n, s[1], s[2], p) :
        n \in {RemoteNode, 1},
        s \in {<<EveryMinute, TRUE>>, <<EveryMinute, FALSE>>, <<"", TRUE>>},
        p \in {Pattern(FALSE, <<>>), Pattern(TRUE, <<"foo">>)}}

\* the online members as each member computes them
OnlineChoices ==
    {[m \in MemberIDs |-> l] : l \in {<<>>, <<2>>, <<1, 2>>}}
    \cup {[m \in MemberIDs |-> IF m = 1 THEN <<1, 2>> ELSE <<2>>]}

SchedConfigs ==
    {[members |-> {1}, online |-> [m \in MemberIDs |-> <<1>>], vol |-> v,
      snapshots |-> {}] : v \in SchedVolumes}
    \cup {[members |-> MemberIDs, online |-> o, vol |-> v, snapshots |-> {}] :
            o \in OnlineChoices, v \in SchedVolumes}

InitialSnapshots(v) ==
    { {},
      {Snapshot(10, "snap0", v.node, TRUE)} }

IdleTick == [pc |-> "idle", idx |-> 0, expired |-> <<>>, volumes |-> <<>>]

\* what one tick saw and did
TickRecord(m, now) ==
    [member |-> m, minute |-> now, failed |-> FALSE, seen |-> {}, work |-> {},
     pruneOp |-> TRUE, createOp |-> TRUE, events |-> <<>>, stopped |-> FALSE,
     driverFailed |-> FALSE]

Entry(kind, v) == <<kind, v.id>>

(***************************************************************************)
(* Snapshot scheduler: pruneExpiredAndAutoCreateCustomVolumeSnapshotsTask  *)
(***************************************************************************)

\* localUtil.GetStableRandomInt64FromList: a pure function of the key and the
\* sorted list
GetStableRandomInt64FromList(key, list) == list[(key % Len(list)) + 1]

\* snapshotIsScheduledNow: the schedule matches the minute of the wall clock,
\* which every minute does for the one schedule of the inputs
SnapshotIsScheduledNow(schedule, subjectID) == schedule = EveryMinute

\* the test that skips every remote entry
SkipRemote(memberCount, onlineMemberIDs) == memberCount > 1 /\ Len(onlineMemberIDs) <= 0

\* the test that keeps a remote entry on this member
Chosen_Always(localMemberID, key, memberCount, onlineMemberIDs) == TRUE

Chosen(localMemberID, key, memberCount, onlineMemberIDs) ==
    memberCount > 1 =>
        localMemberID = GetStableRandomInt64FromList(key, onlineMemberIDs)

RECURSIVE SortedByID(_)
SortedByID(S) ==
    IF S = {} THEN <<>>
    ELSE LET x == CHOOSE x \in S : \A y \in S : x.id <= y.id
         IN  <<x>> \o SortedByID(S \ {x})

WorkList_KeepRemote(m, entries, memberCount, onlineMemberIDs) ==
    SortedByID({e \in entries : e.node >= 0})
    \o SortedByID({e \in entries : e.node < 0})

\* the local entries and the remote entries that stay on this member
WorkList(m, entries, memberCount, onlineMemberIDs) ==
    SortedByID({e \in entries : e.node >= 0})
    \o SortedByID({e \in entries :
                    /\ e.node < 0
                    /\ ~SkipRemote(memberCount, onlineMemberIDs)
                    /\ Chosen(m, e.id, memberCount, onlineMemberIDs)})

PhaseAfterPrune_Idle(volumeList, createOp) == "idle"

PhaseAfterPrune(volumeList, createOp) ==
    IF volumeList # <<>> /\ createOp THEN "create" ELSE "idle"

PhaseAfterCollect_CreateOnly(expiredList, volumeList, pruneOp, createOp) ==
    PhaseAfterPrune(volumeList, createOp)

PhaseAfterCollect(expiredList, volumeList, pruneOp, createOp) ==
    IF expiredList # <<>> /\ pruneOp THEN "prune"
    ELSE PhaseAfterPrune(volumeList, createOp)

Entries(kind, list) == {Entry(kind, list[k]) : k \in DOMAIN list}

\* the task up to the start of its operations: the transaction that collects the
\* entries and the selection of the remote entries
TickCollect(m) ==
    /\ m \in sconf.members
    /\ ticks[m].pc = "idle"
    /\ Len(log) < MaxTicks
    /\ LET v == sconf.vol
           allExpired == {s \in snapshots : s.expired /\ s.node \in {RemoteNode, m}}
           scheduled == IF /\ v.node \in {RemoteNode, m} /\ v.allow /\ v.schedule # ""
                           /\ SnapshotIsScheduledNow(v.schedule, v.id)
                        THEN {v} ELSE {}
           remote == {e \in allExpired \cup scheduled : e.node < 0}
           memberCount == IF remote # {} THEN Cardinality(sconf.members) ELSE 0
           online == IF remote # {} THEN sconf.online[m] ELSE <<>>
           expiredList == WorkList(m, allExpired, memberCount, online)
           volumeList == WorkList(m, scheduled, memberCount, online)
       IN  \* the transaction fails, and each operation starts or fails to
           \E dbFails \in BOOLEAN,
              pruneOp \in IF expiredList # <<>> THEN BOOLEAN ELSE {TRUE},
              createOp \in IF volumeList # <<>> THEN BOOLEAN ELSE {TRUE} :
             IF dbFails
             THEN /\ pruneOp /\ createOp
                  /\ log' = Append(log, [TickRecord(m, minute) EXCEPT !.failed = TRUE])
                  /\ ticks' = ticks
             ELSE /\ log' = Append(log, [TickRecord(m, minute) EXCEPT
                        !.pruneOp = pruneOp, !.createOp = createOp,
                        !.seen = {Entry("snapshot", s) :
                                    s \in {e \in allExpired : e.node < 0}}
                                 \cup {Entry("volume", x) :
                                    x \in {e \in scheduled : e.node < 0}},
                        !.work = Entries("snapshot", expiredList)
                                 \cup Entries("volume", volumeList)])
                  /\ ticks' = [ticks EXCEPT ![m] =
                        [pc |-> PhaseAfterCollect(expiredList, volumeList, pruneOp,
                                                  createOp),
                         idx |-> Len(log) + 1, expired |-> expiredList,
                         volumes |-> volumeList]]
    /\ UNCHANGED <<sconf, snapshots, minute>>

\* how one turn of a loop ends: the driver call succeeds, the turn returns
\* before the driver call (ctx.Err() or LoadByName), or the driver call fails
Outcomes == {"ok", "stopped", "failed"}

\* pruneExpiredCustomVolumeSnapshots: one turn of the loop. The ticks of a member
\* run one after the other, so the turn never finds its snapshot in
\* customVolSnapshotsPruneRunning, and has removed it again when it ends
TickPrune(m) ==
    /\ ticks[m].pc = "prune"
    /\ \E outcome \in Outcomes :
        LET t == ticks[m]
            s == Head(t.expired)
            ok == outcome = "ok" /\ s \in snapshots
            stop == [t EXCEPT !.pc = PhaseAfterPrune(t.volumes, log[t.idx].createOp)]
        IN  IF outcome = "stopped"
            THEN /\ ticks' = [ticks EXCEPT ![m] = stop]
                 /\ log' = [log EXCEPT ![t.idx].stopped = TRUE]
                 /\ UNCHANGED snapshots
            ELSE /\ log' = [log EXCEPT
                        ![t.idx].events = Append(@, [op |-> "delete", name |-> s.name,
                                                     ok |-> ok]),
                        ![t.idx].driverFailed = @ \/ outcome = "failed"]
                 /\ snapshots' = IF ok THEN snapshots \ {s} ELSE snapshots
                 /\ ticks' = [ticks EXCEPT ![m] =
                        IF ~ok \/ Tail(t.expired) = <<>> THEN stop
                        ELSE [t EXCEPT !.expired = Tail(t.expired)]]
    /\ UNCHANGED <<sconf, minute>>

NextSnapshotID == 1 + (CHOOSE n \in {s.id : s \in snapshots} \cup {11} :
                          \A k \in {s.id : s \in snapshots} \cup {11} : k <= n)

TimeOf(now) == IF now = 0 THEN "T1" ELSE "T2"

\* autoCreateCustomVolumeSnapshots: one turn of the loop
TickCreate(m) ==
    /\ ticks[m].pc = "create"
    /\ \E outcome \in Outcomes :
        LET t == ticks[m]
            v == Head(t.volumes)
            existing == {s.name : s \in snapshots}
            snapshotName == VolumeDetermineNextSnapshotName(v.pattern, existing, {},
                                                            TimeOf(minute))
            ok == outcome = "ok" /\ snapshotName.name \notin existing
        IN  IF outcome = "stopped" \/ snapshotName.err # ""
            THEN /\ ticks' = [ticks EXCEPT ![m] = IdleTick]
                 /\ log' = [log EXCEPT ![t.idx].stopped = TRUE]
                 /\ UNCHANGED snapshots
            ELSE /\ log' = [log EXCEPT
                        ![t.idx].events = Append(@, [op |-> "create",
                                              name |-> snapshotName.name, ok |-> ok]),
                        ![t.idx].driverFailed = @ \/ outcome = "failed"]
                 /\ snapshots' = IF ok
                                 THEN snapshots \cup {Snapshot(NextSnapshotID,
                                                   snapshotName.name, v.node, FALSE)}
                                 ELSE snapshots
                 /\ ticks' = [ticks EXCEPT ![m] =
                        IF ~ok \/ Tail(t.volumes) = <<>> THEN IdleTick
                        ELSE [t EXCEPT !.volumes = Tail(t.volumes)]]
    /\ UNCHANGED <<sconf, minute>>

\* the wall clock passes to the next minute
AdvanceMinute ==
    /\ Len(log) < MaxTicks
    /\ \E k \in DOMAIN log : log[k].minute = minute
    /\ minute' = minute + 1
    /\ UNCHANGED <<sconf, snapshots, ticks, log>>

SchedInit ==
    /\ \E c \in SchedConfigs :
        \E ss \in InitialSnapshots(c.vol) :
            /\ sconf = [c EXCEPT !.snapshots = ss]
            /\ snapshots = ss
    /\ ticks = [m \in MemberIDs |-> IdleTick]
    /\ log = <<>>
    /\ minute = 0

SchedIdle ==
    /\ sconf = [members |-> {}, online |-> [m \in MemberIDs |-> <<>>],
                vol |-> SchedVolume(1, "", FALSE, Pattern(FALSE, <<>>)),
                snapshots |-> {}]
    /\ snapshots = {}
    /\ ticks = [m \in MemberIDs |-> IdleTick]
    /\ log = <<>>
    /\ minute = 0

SchedNext ==
    \/ \E m \in MemberIDs : TickCollect(m) /\ UNCHANGED outsideSched
    \/ \E m \in MemberIDs : TickPrune(m) /\ UNCHANGED outsideSched
    \/ \E m \in MemberIDs : TickCreate(m) /\ UNCHANGED outsideSched
    \/ AdvanceMinute /\ UNCHANGED outsideSched

(***************************************************************************)
(* Snapshot scheduler: properties                                          *)
(***************************************************************************)

Clustered == Cardinality(sconf.members) > 1

SameOnline == \A a, b \in sconf.members : sconf.online[a] = sconf.online[b]

\* tick k keeps the remote entry e exactly when its member is the stable selection
OnSelected(k, e) ==
    LET online == sconf.online[log[k].member]
    IN  Len(online) > 0 =>
            (e \in log[k].work
                <=> log[k].member = GetStableRandomInt64FromList(e[2], online))

\* of two members that see the remote entry e in the same minute, exactly one
\* keeps it
OnOneMember(j, k, e) ==
    ( /\ ~log[j].failed
      /\ log[j].member # log[k].member
      /\ log[j].minute = log[k].minute
      /\ e \in log[j].seen )
    => ((e \in log[j].work) # (e \in log[k].work))

RemoteEntrySelection ==
    \A k \in DOMAIN log : \A e \in log[k].seen :
        ~log[k].failed =>
            /\ OnSelected(k, e)
            /\ \A j \in DOMAIN log : OnOneMember(j, k, e)

\* C7: in a cluster of several members that compute the same list of online
\* members, a remote entry is on the work list of exactly one member in a tick,
\* the member of the stable selection over the entry id and the online list
C7_RemoteEntryOnExactlyOneMember ==
    (Clustered /\ SameOnline) => RemoteEntrySelection

\* C7: the same, for a list of online members that is not empty
C7_RemoteEntryOnSelectedMember ==
    (Clustered /\ SameOnline /\ \A m \in sconf.members : sconf.online[m] # <<>>)
    => RemoteEntrySelection

C7_Witness ==
    /\ Clustered
    /\ SameOnline
    /\ \A m \in sconf.members : sconf.online[m] # <<>>
    /\ \E j, k \in DOMAIN log : \E e \in log[j].seen \cap log[k].seen :
        /\ log[j].member # log[k].member
        /\ log[j].minute = log[k].minute
        /\ ~log[j].failed
        /\ ~log[k].failed
        /\ e \in log[k].work
        /\ e \notin log[j].work

TickDone(k) == ticks[log[k].member].idx # k \/ ticks[log[k].member].pc = "idle"

\* tick k ran to its end: its transaction succeeded, its operations started, no
\* turn of its loops was stopped, no driver call failed on its own
CleanTick(k) ==
    /\ ~log[k].failed
    /\ log[k].pruneOp
    /\ log[k].createOp
    /\ ~log[k].stopped
    /\ ~log[k].driverFailed
    /\ TickDone(k)

Ops(events) == [i \in DOMAIN events |-> events[i].op]

\* the volume is scheduled every minute and has one expired snapshot, and the
\* first two ticks are ticks of one member in one minute that ran to their end,
\* with the volume and the snapshot on the work list of the first
TwoTicksInOneMinute ==
    /\ Len(log) >= 2
    /\ sconf.vol.schedule = EveryMinute
    /\ sconf.vol.allow
    /\ Cardinality(sconf.snapshots) = 1
    /\ \A s \in sconf.snapshots : s.expired /\ Entry("snapshot", s) \in log[1].work
    /\ Entry("volume", sconf.vol) \in log[1].work
    /\ log[1].member = log[2].member
    /\ log[1].minute = log[2].minute
    /\ CleanTick(1)
    /\ CleanTick(2)

SkippedWhenOnline(k, n) ==
    ( /\ ~log[k].failed
      /\ Len(sconf.online[log[k].member]) = n
      /\ log[k].seen # {} )
    => /\ log[k].work \cap log[k].seen = {}
       /\ sconf.vol.node < 0 => log[k].events = <<>>

\* C31: in a cluster of several members, a tick on a member that finds exactly one
\* member online skips every remote entry
C31_SkippedWhenOneOnline ==
    Clustered => \A k \in DOMAIN log : SkippedWhenOnline(k, 1)

\* C31: in a cluster of several members, a tick on a member that finds no member
\* online skips every remote entry: no member executes it
C31_SkippedWhenNoneOnline ==
    Clustered => \A k \in DOMAIN log : SkippedWhenOnline(k, 0)

\* both members have run a tick that saw a remote entry while no member was
\* online, and neither has executed anything
C31_Witness ==
    /\ Clustered
    /\ \A m \in sconf.members : sconf.online[m] = <<>>
    /\ \E j, k \in DOMAIN log :
        /\ log[j].member # log[k].member
        /\ log[j].seen # {} /\ log[k].seen # {}
        /\ TickDone(j) /\ TickDone(k)
        /\ log[j].events = <<>> /\ log[k].events = <<>>

\* no deletion of tick k follows a creation of tick k
DeletesBeforeCreates(k) ==
    \A i, j \in DOMAIN log[k].events :
        (log[k].events[i].op = "create" /\ log[k].events[j].op = "delete") => j < i

\* the step ends the prune operation of the tick of member m
PruneEnds(m) == ticks[m].pc = "prune" /\ ticks'[m].pc # "prune"

\* the creations of the tick of member m are due: the tick has scheduled volumes
\* and its create operation started
CreationsDue(m) == ticks[m].volumes # <<>> /\ log[ticks[m].idx].createOp

\* C32: within one tick no creation starts before the prune operation has ended,
\* and when the prune operation ends, in success or in failure, the creations
\* that are due are attempted next
C32_PruneEndsBeforeCreations ==
    /\ [](\A m \in MemberIDs :
            /\ ticks[m].pc = "prune" =>
                    \A e \in DOMAIN log[ticks[m].idx].events :
                        log[ticks[m].idx].events[e].op # "create"
            /\ \A k \in DOMAIN log : DeletesBeforeCreates(k))
    /\ [][\A m \in MemberIDs :
            (PruneEnds(m) /\ CreationsDue(m)) => ticks'[m].pc = "create"]_vars

\* a tick whose deletion failed has gone on to create a snapshot
C32_Witness ==
    \E k \in DOMAIN log :
        /\ Len(log[k].events) = 2
        /\ log[k].events[1].op = "delete"
        /\ ~log[k].events[1].ok
        /\ log[k].events[2].op = "create"
        /\ log[k].events[2].ok


(***************************************************************************)
(* Update and delete of one volume: inputs                                 *)
(* (storagePoolVolumePut, storagePoolVolumePatch, storagePoolVolumeDelete)  *)
(***************************************************************************)

Calls == {"u1", "u2"}

\* supportedVolumeTypes: the types the volume handlers accept
VolumeTypes == {"custom", "image", "container", "virtual-machine"}

\* the name of a volume; the name of an image volume is its fingerprint
StoredName == "vol1"

NoValue == "absent"

\* a config map over two keys; a key without entry has NoValue, nil has none
Config(size, expiry) == [size |-> size, expiry |-> expiry]

NilConfig == Config(NoValue, NoValue)

BodyConfigs == {NilConfig, Config("1", NoValue), Config("2", NoValue), Config(NoValue, "1")}

\* an entry of UsedBy: the path and the query of its URL
URL(path, query) == [path |-> path, query |-> query]

ImageURL(fingerprint) == URL(<<"1.0", "images", fingerprint>>, "")

UsedByChoices(type) ==
    IF type = "custom" THEN {<<>>, <<URL(<<"1.0", "instances", "i1">>, "")>>}
    ELSE IF type = "image"
    THEN {<<>>, <<ImageURL(StoredName)>>,
          <<URL(<<"1.0", "images", StoredName>>, "project=p2")>>,
          <<ImageURL("other")>>,
          <<ImageURL(StoredName), URL(<<"1.0", "instances", "i1">>, "")>>}
    ELSE {<<>>}

StoredVolume(type, usedBy) ==
    [exists |-> TRUE, name |-> StoredName, type |-> type, config |-> Config("1", "1"),
     description |-> "d0", restored |-> "", usedBy |-> usedBy]

\* api.StorageVolumePut
PutBody(config, isNil, restore) ==
    [Config |-> config, ConfigNil |-> isNil, Description |-> "d1", Restore |-> restore]

\* a body without config has a nil map, a body with "config": {} an empty one
PutBodies ==
    {PutBody(c, c = NilConfig, rs) : c \in BodyConfigs, rs \in {"", "snap0"}}
    \cup {PutBody(NilConfig, FALSE, rs) : rs \in {"", "snap0"}}

\* the If-Match header: none, or the tag of the (name, type, config) the client saw
NoTag == <<>>

\* the hash of the etag parts
EtagHash(parts) == <<"sha256", parts>>

ClientTags(v) ==
    {NoTag, EtagHash(<<v.name, v.type, v.config>>),
     EtagHash(<<v.name, v.type, Config("2", "1")>>)}

IdleCall ==
    [pc |-> "idle", kind |-> "", ifMatch |-> NoTag, body |-> PutBody(NilConfig, TRUE, ""),
     response |-> "none", effects |-> {}, matched |-> TRUE, current |-> TRUE,
     found |-> FALSE]

(***************************************************************************)
(* Update and delete of one volume: the handlers                           *)
(***************************************************************************)

\* etag := []any{volumeName, dbVolume.Type, dbVolume.Config}
VolumeEtag(name, v) == <<name, v.type, v.config>>

\* localUtil.EtagCheck: a request without If-Match passes
EtagCheck(ifMatch, etag) == ifMatch = NoTag \/ ifMatch = EtagHash(etag)

\* the validation of the ETag by the handlers
ValidateETag_Skip(ifMatch, name, v) == TRUE

ValidateETag(ifMatch, name, v) == EtagCheck(ifMatch, VolumeEtag(name, v))

\* history: the tag of the call matches the stored volume
TagMatches(c) == c.ifMatch = EtagHash(<<stored.name, stored.type, stored.config>>)

CallDone(c, resp) == [c EXCEPT !.pc = "done", !.response = resp]

\* the call after the load of the volume; history: the volume was found, and the
\* tag of the call matched it
Loaded(c) == [c EXCEPT !.found = stored.exists, !.matched = TagMatches(c)]

\* the first step of a PUT after its checks: the restore of a custom volume from
\* the snapshot the body names comes before the update
PutFirstStep_UpdateOnly(type, body) == "update"

PutFirstStep(type, body) ==
    IF type = "custom" /\ body.Restore # "" THEN "restore" ELSE "update"

\* storagePoolVolumePut up to the decoding of the body
StoragePoolVolumeTypePut(u) ==
    /\ calls[u].pc = "idle"
    /\ \E body \in PutBodies, tag \in ClientTags(initial) :
        LET c == Loaded([IdleCall EXCEPT !.kind = "put", !.ifMatch = tag, !.body = body])
        IN  calls' = [calls EXCEPT ![u] =
                IF stored.type \notin VolumeTypes THEN CallDone(c, "BadRequest")
                ELSE IF ~stored.exists THEN CallDone(c, "NotFound")
                ELSE IF ~ValidateETag(tag, StoredName, stored)
                THEN CallDone(c, "PreconditionFailed")
                ELSE [c EXCEPT !.pc = PutFirstStep(stored.type, body)]]
    /\ UNCHANGED <<stored, initial>>

\* storagePoolVolumePut: pool.RestoreCustomVolume
PutRestore(u) ==
    /\ calls[u].pc = "restore"
    /\ \E fail \in BOOLEAN :
        LET c == calls[u]
        IN  IF fail \/ ~stored.exists
            THEN /\ calls' = [calls EXCEPT ![u] = CallDone(c, "Error")]
                 /\ stored' = stored
            ELSE /\ calls' = [calls EXCEPT ![u] =
                        [c EXCEPT !.pc = "update", !.effects = @ \cup {"restored"}]]
                 /\ stored' = [stored EXCEPT !.restored = c.body.Restore]
    /\ UNCHANGED initial

\* the write of the description and the config by the pool: it succeeds, the
\* project limits forbid the update, or the pool fails
VolumeWrite(u, outcome) ==
    LET c == calls[u]
    IN  IF outcome # "ok" \/ ~stored.exists
        THEN /\ calls' = [calls EXCEPT ![u] =
                    CallDone(c, IF outcome = "ok" THEN "Error" ELSE outcome)]
             /\ stored' = stored
        ELSE /\ calls' = [calls EXCEPT ![u] =
                    CallDone([c EXCEPT !.effects = @ \cup {"updated"},
                                       !.current = TagMatches(c)], "ok")]
             /\ stored' = [stored EXCEPT !.config = c.body.Config,
                                         !.description = c.body.Description]

\* the update of a custom volume is applied unless the body asks for a restore
\* and has a nil config
UpdateApplies_Always(body) == TRUE

UpdateApplies(body) == ~body.ConfigNil \/ body.Restore = ""

\* storagePoolVolumePut: project.AllowVolumeUpdate and pool.UpdateCustomVolume,
\* pool.UpdateInstance or pool.UpdateImage
PutUpdate(u) ==
    /\ calls[u].pc = "update"
    /\ calls[u].kind = "put"
    /\ \E outcome \in {"ok", "Forbidden", "Error"} :
        LET c == calls[u]
        IN  IF stored.type = "custom" /\ ~UpdateApplies(c.body)
            THEN /\ outcome = "ok"
                 /\ calls' = [calls EXCEPT ![u] = CallDone(c, "ok")]
                 /\ stored' = stored
            ELSE /\ (stored.type # "custom" => outcome # "Forbidden")
                 /\ VolumeWrite(u, outcome)
    /\ UNCHANGED initial

\* the merge of the current config into the requested changes
MergeConfig(reqConfig, dbConfig) ==
    [k \in DOMAIN reqConfig |->
        IF reqConfig[k] = NoValue THEN dbConfig[k] ELSE reqConfig[k]]

\* storagePoolVolumePatch up to the merge of the config
StoragePoolVolumeTypePatch(u) ==
    /\ calls[u].pc = "idle"
    /\ \E body \in PutBodies, tag \in ClientTags(initial) :
        LET c == Loaded([IdleCall EXCEPT !.kind = "patch", !.ifMatch = tag,
                                         !.body = [body EXCEPT !.Restore = ""]])
        IN  /\ body.Restore = ""
            /\ calls' = [calls EXCEPT ![u] =
                IF stored.type # "custom" THEN CallDone(c, "BadRequest")
                ELSE IF ~stored.exists THEN CallDone(c, "NotFound")
                ELSE IF ~ValidateETag(tag, StoredName, stored)
                THEN CallDone(c, "PreconditionFailed")
                ELSE [c EXCEPT !.pc = "update",
                               !.body.Config = MergeConfig(body.Config, stored.config),
                               !.body.ConfigNil = FALSE]]
    /\ UNCHANGED <<stored, initial>>

\* storagePoolVolumePatch: pool.UpdateCustomVolume
PatchUpdate(u) ==
    /\ calls[u].pc = "update"
    /\ calls[u].kind = "patch"
    /\ \E outcome \in {"ok", "Error"} : VolumeWrite(u, outcome)
    /\ UNCHANGED initial

\* isImageURL: the path of the URL is the path of the image of the fingerprint
IsImageURL(usedByURL, fingerprint) == usedByURL.path = ImageURL(fingerprint).path

\* the in-use test of storagePoolVolumeDelete
StillInUse_Never(volumeUsedBy, volumeType, name) == FALSE

StillInUse(volumeUsedBy, volumeType, name) ==
    /\ Len(volumeUsedBy) > 0
    /\ \/ Len(volumeUsedBy) # 1
       \/ volumeType # "image"
       \/ ~IsImageURL(volumeUsedBy[1], name)

\* storagePoolVolumeDelete up to the in-use test
StoragePoolVolumeTypeDelete(u) ==
    /\ calls[u].pc = "idle"
    /\ LET c == Loaded([IdleCall EXCEPT !.kind = "delete"])
       IN  calls' = [calls EXCEPT ![u] =
               IF stored.type \notin VolumeTypes THEN CallDone(c, "BadRequest")
               ELSE IF stored.type \notin {"custom", "image"}
               THEN CallDone(c, "BadRequest")
               ELSE IF ~stored.exists THEN CallDone(c, "NotFound")
               ELSE IF StillInUse(stored.usedBy, stored.type, stored.name)
               THEN CallDone(c, "BadRequest")
               ELSE [c EXCEPT !.pc = "delete"]]
    /\ UNCHANGED <<stored, initial>>

\* storagePoolVolumeDelete: pool.DeleteCustomVolume or pool.DeleteImage
DeleteVolume(u) ==
    /\ calls[u].pc = "delete"
    /\ \E fail \in BOOLEAN :
        LET c == [calls[u] EXCEPT !.effects = @ \cup {"delete"}]
        IN  IF fail \/ ~stored.exists
            THEN /\ calls' = [calls EXCEPT ![u] = CallDone(c, "Error")]
                 /\ stored' = stored
            ELSE /\ calls' = [calls EXCEPT ![u] = CallDone(c, "ok")]
                 /\ stored' = [stored EXCEPT !.exists = FALSE]
    /\ UNCHANGED initial

UpdateInit ==
    /\ \E type \in VolumeTypes : \E usedBy \in UsedByChoices(type) :
        stored = StoredVolume(type, usedBy)
    /\ initial = stored
    /\ calls = [u \in Calls |-> IdleCall]

UpdateIdle ==
    /\ stored = [StoredVolume("custom", <<>>) EXCEPT !.exists = FALSE]
    /\ initial = stored
    /\ calls = [u \in Calls |-> IdleCall]

UpdateNext ==
    \/ \E u \in Calls : StoragePoolVolumeTypePut(u) /\ UNCHANGED outsideUpdate
    \/ \E u \in Calls : PutRestore(u) /\ UNCHANGED outsideUpdate
    \/ \E u \in Calls : PutUpdate(u) /\ UNCHANGED outsideUpdate
    \/ \E u \in Calls : StoragePoolVolumeTypePatch(u) /\ UNCHANGED outsideUpdate
    \/ \E u \in Calls : PatchUpdate(u) /\ UNCHANGED outsideUpdate
    \/ \E u \in Calls : StoragePoolVolumeTypeDelete(u) /\ UNCHANGED outsideUpdate
    \/ \E u \in Calls : DeleteVolume(u) /\ UNCHANGED outsideUpdate

(***************************************************************************)
(* Update and delete of one volume: properties                             *)
(***************************************************************************)

\* a PUT, or a PATCH of a custom volume, that found the volume
UpdateCall(u) ==
    /\ calls[u].kind \in {"put", "patch"}
    /\ calls[u].pc # "idle"
    /\ calls[u].found
    /\ (calls[u].kind = "patch" => stored.type = "custom")

\* the call supplied a tag that was not the tag of the volume it loaded
StaleTag(u) == calls[u].ifMatch # NoTag /\ ~calls[u].matched

C19_NoLostUpdate ==
    \A u \in Calls :
        ("updated" \in calls[u].effects /\ calls[u].ifMatch # NoTag) => calls[u].current

\* a PUT on a custom volume that names a snapshot to restore
RestoringPut(u) ==
    /\ calls[u].kind = "put"
    /\ calls[u].pc # "idle"
    /\ stored.type = "custom"
    /\ calls[u].body.Restore # ""

\* C21: a PUT on a custom volume that names a snapshot restores before it updates
\* config or description, and applies no update when the restore has failed
C21_RestoreBeforeUpdate ==
    \A u \in Calls :
        RestoringPut(u) =>
            /\ ("updated" \in calls[u].effects => "restored" \in calls[u].effects)
            /\ (calls[u].pc = "update" => "restored" \in calls[u].effects)

\* a PUT has restored the snapshot and then written the config of its body
C21_Witness ==
    \E u \in Calls :
        /\ RestoringPut(u)
        /\ calls[u].effects = {"restored", "updated"}
        /\ stored.restored = calls[u].body.Restore
        /\ stored.config = calls[u].body.Config

\* the step is the end of the PUT of call u on a custom volume, after the
\* restore if the body asked for one
PutEnds(u) ==
    /\ calls[u].kind = "put"
    /\ calls[u].pc = "update"
    /\ calls'[u].pc = "done"
    /\ stored.type = "custom"
    /\ stored.exists

\* the call wrote the config and the description of its body in this step
Updates(u) ==
    /\ "updated" \in calls'[u].effects
    /\ stored'.config = calls[u].body.Config
    /\ stored'.description = calls[u].body.Description

\* C40: a PUT on a custom volume that names a snapshot and has no config restores
\* only and leaves config and description as the restore left them; a PUT
\* without restore, or with a config that is not nil, applies the update unless
\* the update is refused or fails
C40_RestoreOnlyWithoutConfig ==
    [][\A u \in Calls :
        PutEnds(u) =>
            IF calls[u].body.Restore # "" /\ calls[u].body.ConfigNil
            THEN /\ calls'[u].response = "ok"
                 /\ calls'[u].effects = {"restored"}
                 /\ stored' = stored
            ELSE calls'[u].response = "ok" => Updates(u)]_vars

\* a PUT with a snapshot and no config has ended: the volume is restored and has
\* the config and the description it had; another PUT with a snapshot and an
\* empty config would have cleared the config
C40_Witness ==
    \E u \in Calls :
        /\ RestoringPut(u)
        /\ calls[u].body.ConfigNil
        /\ calls[u].pc = "done"
        /\ calls[u].response = "ok"
        /\ calls[u].effects = {"restored"}
        /\ stored.restored = calls[u].body.Restore
        /\ stored.config = initial.config
        /\ stored.description = initial.description

\* the volume may be deleted: custom or image, and not in use, or an image volume
\* used by the image record of its own fingerprint only
DeleteAllowed(v) ==
    /\ v.type \in {"custom", "image"}
    /\ \/ v.usedBy = <<>>
       \/ /\ v.type = "image"
          /\ Len(v.usedBy) = 1
          /\ v.usedBy[1].path = <<"1.0", "images", v.name>>

\* C20: a delete proceeds exactly when the type is custom or image and UsedBy is
\* empty or, for an image volume, the single reference to the image record of its
\* own fingerprint; otherwise the request is rejected and the volume still exists
C20_DeleteExactlyWhenAllowed ==
    \A u \in Calls :
        (calls[u].kind = "delete" /\ calls[u].found) =>
            /\ (calls[u].pc = "delete" \/ "delete" \in calls[u].effects)
                    <=> DeleteAllowed(stored)
            /\ ~DeleteAllowed(stored) =>
                    /\ calls[u].response = "BadRequest"
                    /\ stored.exists

\* an image volume used by its own image record has been deleted
C20_Witness ==
    \E u \in Calls :
        /\ calls[u].kind = "delete"
        /\ calls[u].response = "ok"
        /\ stored.type = "image"
        /\ stored.usedBy # <<>>
        /\ ~stored.exists

(***************************************************************************)
(* Volume creation from an ISO upload or from a migration source           *)
(* (createStoragePoolVolumeFromISO, doVolumeMigration)                     *)
(***************************************************************************)

Creators == {"c1", "c2"}

\* req.Source.Mode of a create request with source type migration
MigrationModes == {"pull", "push", "relay"}

\* the X-Incus-name header of an upload
UploadNames == {"", "iso1"}

IdleCreate ==
    [pc |-> "idle", kind |-> "", name |-> "", mode |-> "", response |-> "none",
     opClass |-> "none", op |-> "none", sound |-> TRUE, file |-> FALSE, open |-> FALSE,
     effects |-> {}]

\* the handler returns its response without an operation
Answer(c, resp) == [c EXCEPT !.pc = "done", !.response = resp]

\* the handler returns an operation of the class, which the daemon then runs
AnswerOperation(c, class, step) ==
    [c EXCEPT !.pc = step, !.response = "operation", !.opClass = class, !.op = "running"]

\* the operation ends
EndOperation(c, status) == [c EXCEPT !.pc = "done", !.op = status]

\* defer os.Remove(isoFile.Name()): the scratch file leaves the ISO directory
\* when createStoragePoolVolumeFromISO returns
RemoveScratch_Never(files, file) == files

RemoveScratch(files, file) == files \ {file}

\* createStoragePoolVolumeFromISO up to os.CreateTemp
CreateStoragePoolVolumeFromISO(c) ==
    /\ creates[c].pc = "idle"
    /\ \E volName \in UploadNames, outcome \in {"ok", "MkdirAll", "CreateTemp"} :
        LET q == [IdleCreate EXCEPT !.kind = "iso", !.name = volName]
        IN  IF volName = ""
            THEN /\ outcome = "ok"
                 /\ creates' = [creates EXCEPT ![c] = Answer(q, "BadRequest")]
                 /\ isos' = isos
            ELSE IF outcome # "ok"
            THEN /\ creates' = [creates EXCEPT ![c] = Answer(q, "InternalError")]
                 /\ isos' = isos
            ELSE /\ creates' = [creates EXCEPT ![c] =
                        [q EXCEPT !.pc = "iso_copy", !.file = TRUE, !.open = TRUE]]
                 /\ isos' = isos \cup {c}

\* createStoragePoolVolumeFromISO: io.Copy of the upload into the scratch file
ISOCopy(c) ==
    /\ creates[c].pc = "iso_copy"
    /\ \E fail \in BOOLEAN :
        IF fail
        THEN /\ creates' = [creates EXCEPT ![c] =
                    Answer([@ EXCEPT !.open = FALSE], "InternalError")]
             /\ isos' = RemoveScratch(isos, c)
        ELSE /\ creates' = [creates EXCEPT ![c].pc = "iso_operation"]
             /\ isos' = isos

\* createStoragePoolVolumeFromISO: operations.OperationCreate and the return
ISOOperationCreate(c) ==
    /\ creates[c].pc = "iso_operation"
    /\ \E fail \in BOOLEAN :
        creates' = [creates EXCEPT ![c] =
            IF fail THEN Answer([@ EXCEPT !.open = FALSE], "InternalError")
            ELSE AnswerOperation(@, "task", "iso_run")]
    /\ isos' = RemoveScratch(isos, c)

\* run of the ISO operation: storagePools.LoadByName, pool.CreateCustomVolumeFromISO
ISORun(c) ==
    /\ creates[c].pc = "iso_run"
    /\ \E outcome \in {"ok", "LoadByName", "CreateCustomVolumeFromISO"} :
        creates' = [creates EXCEPT ![c] =
            IF outcome = "ok"
            THEN EndOperation([@ EXCEPT !.open = FALSE, !.effects = {"created"}], "success")
            ELSE EndOperation([@ EXCEPT !.open = FALSE], "failure")]
    /\ isos' = isos

\* doVolumeMigration: mode, certificate, sink, operation
DoVolumeMigration(c) ==
    /\ creates[c].pc = "idle"
    /\ \E mode \in MigrationModes,
          outcome \in {"ok", "Certificate", "newStorageMigrationSink", "OperationCreate"} :
        LET q == [IdleCreate EXCEPT !.kind = "migration", !.name = "vol1",
                                    !.mode = mode, !.sound = (outcome = "ok")]
        IN  creates' = [creates EXCEPT ![c] =
                IF mode \notin {"pull", "push"} THEN Answer(q, "NotImplemented")
                ELSE IF outcome # "ok" THEN Answer(q, "InternalError")
                ELSE AnswerOperation(q, IF mode = "push" THEN "websocket" ELSE "task",
                                     "sink_run")]
    /\ isos' = isos

\* run of the migration operation: sink.DoStorage
MigrationSinkRun(c) ==
    /\ creates[c].pc = "sink_run"
    /\ \E fail \in BOOLEAN :
        creates' = [creates EXCEPT ![c] =
            IF fail THEN EndOperation(@, "failure")
            ELSE EndOperation([@ EXCEPT !.effects = {"created"}], "success")]
    /\ isos' = isos

CreateInit ==
    /\ isos = {}
    /\ creates = [c \in Creators |-> IdleCreate]

CreateIdle == CreateInit

CreateNext ==
    \/ \E c \in Creators : CreateStoragePoolVolumeFromISO(c) /\ UNCHANGED outsideCreate
    \/ \E c \in Creators : ISOCopy(c) /\ UNCHANGED outsideCreate
    \/ \E c \in Creators : ISOOperationCreate(c) /\ UNCHANGED outsideCreate
    \/ \E c \in Creators : ISORun(c) /\ UNCHANGED outsideCreate
    \/ \E c \in Creators : DoVolumeMigration(c) /\ UNCHANGED outsideCreate
    \/ \E c \in Creators : MigrationSinkRun(c) /\ UNCHANGED outsideCreate

(***************************************************************************)
(* Volume creation from an upload or a migration: properties               *)
(***************************************************************************)

\* C22: a create request with source type migration is accepted and yields an
\* operation for each of the modes pull, push and relay
C22_MigrationModesAccepted ==
    \A c \in Creators :
        (creates[c].kind = "migration" /\ creates[c].sound) =>
            creates[c].response = "operation"

\* the request and its operation have finished
CreateFinished(c) ==
    creates[c].pc = "done" /\ creates[c].op \in {"none", "success", "failure"}

\* C27: once an ISO import and its operation have finished, on every exit path,
\* the scratch file of the request is not in the ISO directory
C27_NoScratchFileLeft ==
    \A c \in Creators :
        (creates[c].kind = "iso" /\ CreateFinished(c)) => c \notin isos

\* an ISO import has written its scratch file and its operation has succeeded
C27_Witness ==
    \E c \in Creators :
        /\ creates[c].kind = "iso"
        /\ CreateFinished(c)
        /\ creates[c].file
        /\ creates[c].op = "success"
        /\ c \notin isos

(***************************************************************************)
(* The loops of the snapshot scheduler, statement by statement             *)
(* (pruneExpiredCustomVolumeSnapshots, autoCreateCustomVolumeSnapshots)    *)
(***************************************************************************)

\* the invocations of the two loops that run in one process
Invocations == {"i1", "i2"}

\* v.ID of the entries of a work list
EntryIDs == {1, 2}

\* expiredSnapshots, volumes: the work list of an invocation
WorkLists == {<<1>>, <<2>>, <<1, 2>>, <<2, 1>>}

ContextCanceled == "context canceled"

IdleLoop ==
    [pc |-> "idle", kind |-> "", list |-> <<>>, cancelled |-> FALSE, err |-> "",
     events |-> <<>>, late |-> FALSE, skipped |-> {}, added |-> {}]

\* ctx.Err(): nil until the context is cancelled
CtxErr_Nil(cancelled) == ""

CtxErr(cancelled) == IF cancelled THEN ContextCanceled ELSE ""

\* customVolSnapshotsPruneRunning.LoadOrStore(v.ID, struct{}{}): one atomic step
\* that tells whether the key was there and leaves it there
LoadOrStore_NeverLoaded(set, id) ==
    [loaded |-> FALSE, set |-> set \cup {id}]

LoadOrStore(set, id) ==
    [loaded |-> id \in set, set |-> set \cup {id}]

\* customVolSnapshotsPruneRunning.Delete(v.ID)
MapDelete_Keep(set, id) == set

MapDelete(set, id) == set \ {id}

\* the loop returns err
LoopReturn(l, err) == [l EXCEPT !.pc = "done", !.err = err]

\* the loop goes on to its next entry
LoopContinue(l) == [l EXCEPT !.pc = "check", !.list = Tail(@)]

\* a driver call of the loop starts or ends
DriverEvent(l, what) ==
    [l EXCEPT !.events = Append(@, <<what, Head(l.list)>>),
              !.late = @ \/ (what = "start" /\ l.cancelled)]

\* the operation of a tick calls one of the loops with its work list
LoopStart(i) ==
    /\ loops[i].pc = "idle"
    /\ \E kind \in {"prune", "create"}, list \in WorkLists :
        loops' = [loops EXCEPT ![i] =
                    [IdleLoop EXCEPT !.pc = "check", !.kind = kind, !.list = list]]
    /\ UNCHANGED customVolSnapshotsPruneRunning

\* the context of the invocation is cancelled, at any point of the loop
CtxCancel(i) ==
    /\ loops[i].pc \notin {"idle", "done"}
    /\ ~loops[i].cancelled
    /\ loops' = [loops EXCEPT ![i].cancelled = TRUE]
    /\ UNCHANGED customVolSnapshotsPruneRunning

\* for _, v := range ...; err := ctx.Err(); if err != nil { return err }
LoopCheck(i) ==
    /\ loops[i].pc = "check"
    /\ LET l == loops[i]
       IN  loops' = [loops EXCEPT ![i] =
                IF l.list = <<>> THEN LoopReturn(l, "")
                ELSE IF CtxErr(l.cancelled) # "" THEN LoopReturn(l, CtxErr(l.cancelled))
                ELSE [l EXCEPT !.pc = IF l.kind = "prune" THEN "store" ELSE "prepare"]]
    /\ UNCHANGED customVolSnapshotsPruneRunning

\* pruneExpiredCustomVolumeSnapshots: LoadOrStore, and continue if loaded
PruneLoadOrStore(i) ==
    /\ loops[i].pc = "store"
    /\ LET l == loops[i]
           id == Head(l.list)
           r == LoadOrStore(customVolSnapshotsPruneRunning, id)
       IN  /\ customVolSnapshotsPruneRunning' = r.set
           /\ loops' = [loops EXCEPT ![i] =
                IF r.loaded
                THEN LoopContinue([l EXCEPT !.skipped = @ \cup {id}])
                ELSE [l EXCEPT !.pc = "load", !.added = @ \cup {id}]]

\* pruneExpiredCustomVolumeSnapshots: storagePools.LoadByName, and the start of
\* pool.DeleteCustomVolumeSnapshot
PruneLoadByName(i) ==
    /\ loops[i].pc = "load"
    /\ \E fail \in BOOLEAN :
        LET l == loops[i]
        IN  IF fail
            THEN /\ customVolSnapshotsPruneRunning' =
                        MapDelete(customVolSnapshotsPruneRunning, Head(l.list))
                 /\ loops' = [loops EXCEPT ![i] = LoopReturn(l, "LoadByName")]
            ELSE /\ customVolSnapshotsPruneRunning' = customVolSnapshotsPruneRunning
                 /\ loops' = [loops EXCEPT ![i] =
                        [DriverEvent(l, "start") EXCEPT !.pc = "delete"]]

\* pruneExpiredCustomVolumeSnapshots: pool.DeleteCustomVolumeSnapshot returns, the
\* id leaves the running set, and the loop returns the error or goes on
PruneDelete(i) ==
    /\ loops[i].pc = "delete"
    /\ \E fail \in BOOLEAN :
        LET l == DriverEvent(loops[i], "end")
        IN  /\ customVolSnapshotsPruneRunning' =
                    MapDelete(customVolSnapshotsPruneRunning, Head(l.list))
            /\ loops' = [loops EXCEPT ![i] =
                    IF fail THEN LoopReturn(l, "DeleteCustomVolumeSnapshot")
                    ELSE LoopContinue(l)]

\* autoCreateCustomVolumeSnapshots: volumeDetermineNextSnapshotName, GetExpiry,
\* storagePools.LoadByName, and the start of pool.CreateCustomVolumeSnapshot
CreatePrepare(i) ==
    /\ loops[i].pc = "prepare"
    /\ \E outcome \in {"ok", "volumeDetermineNextSnapshotName", "GetExpiry",
                       "LoadByName"} :
        LET l == loops[i]
        IN  loops' = [loops EXCEPT ![i] =
                IF outcome # "ok" THEN LoopReturn(l, outcome)
                ELSE [DriverEvent(l, "start") EXCEPT !.pc = "create"]]
    /\ UNCHANGED customVolSnapshotsPruneRunning

\* autoCreateCustomVolumeSnapshots: pool.CreateCustomVolumeSnapshot returns
CreateSnapshot(i) ==
    /\ loops[i].pc = "create"
    /\ \E fail \in BOOLEAN :
        LET l == DriverEvent(loops[i], "end")
        IN  loops' = [loops EXCEPT ![i] =
                IF fail THEN LoopReturn(l, "CreateCustomVolumeSnapshot")
                ELSE LoopContinue(l)]
    /\ UNCHANGED customVolSnapshotsPruneRunning

LoopsInit ==
    /\ customVolSnapshotsPruneRunning = {}
    /\ loops = [i \in Invocations |-> IdleLoop]

LoopsIdle == LoopsInit

LoopsNext ==
    \/ \E i \in Invocations : LoopStart(i) /\ UNCHANGED outsideLoops
    \/ \E i \in Invocations : CtxCancel(i) /\ UNCHANGED outsideLoops
    \/ \E i \in Invocations : LoopCheck(i) /\ UNCHANGED outsideLoops
    \/ \E i \in Invocations : PruneLoadOrStore(i) /\ UNCHANGED outsideLoops
    \/ \E i \in Invocations : PruneLoadByName(i) /\ UNCHANGED outsideLoops
    \/ \E i \in Invocations : PruneDelete(i) /\ UNCHANGED outsideLoops
    \/ \E i \in Invocations : CreatePrepare(i) /\ UNCHANGED outsideLoops
    \/ \E i \in Invocations : CreateSnapshot(i) /\ UNCHANGED outsideLoops

(***************************************************************************)
(* The loops of the snapshot scheduler: properties                         *)
(***************************************************************************)

\* invocation i has a delete of the snapshot id in progress
Deleting(i, id) ==
    /\ loops[i].kind = "prune"
    /\ loops[i].pc = "delete"
    /\ Head(loops[i].list) = id

\* the step is the LoadOrStore of invocation i, which finds its id in the set
FindsRunning(i) ==
    /\ loops[i].pc = "store"
    /\ Head(loops[i].list) \in customVolSnapshotsPruneRunning
    /\ loops'[i].pc # loops[i].pc

\* C33: at most one delete of a snapshot id is in progress at any time, and an
\* invocation that finds the id in the running set skips it without error and
\* goes on with the next entry
C33_OneDeletePerSnapshot ==
    /\ [](\A id \in EntryIDs :
            Cardinality({i \in Invocations : Deleting(i, id)}) <= 1)
    /\ [][\A i \in Invocations :
            FindsRunning(i) =>
                /\ loops'[i].pc = "check"
                /\ loops'[i].err = ""
                /\ loops'[i].list = Tail(loops[i].list)
                /\ loops'[i].events = loops[i].events]_vars

\* an invocation has skipped a snapshot whose delete is still in progress in
\* the other invocation, and has returned without error
C33_Witness ==
    \E i, j \in Invocations : \E id \in EntryIDs :
        /\ i # j
        /\ Deleting(j, id)
        /\ id \in loops[i].skipped
        /\ loops[i].pc = "done"
        /\ loops[i].err = ""

\* the driver calls of one invocation follow each other: each call ends before
\* the next one starts
OneAfterTheOther(events) ==
    \A n \in DOMAIN events :
        /\ events[n][1] = (IF n % 2 = 1 THEN "start" ELSE "end")
        /\ n % 2 = 0 => events[n][2] = events[n - 1][2]

\* the step is the check of the context at the head of a turn of invocation i,
\* after the context was cancelled
ChecksCancelled(i) ==
    /\ loops[i].pc = "check"
    /\ loops[i].list # <<>>
    /\ loops[i].cancelled
    /\ loops'[i].pc # loops[i].pc

HeldIDs ==
    {Head(loops[i].list) :
        i \in {j \in Invocations : loops[j].kind = "prune"
                                   /\ loops[j].pc \in {"load", "delete"}}}

\* C36: every id in the running set was put there by a prune invocation that has
\* not returned, so that the set is empty whenever no prune invocation is running
C36_RunningSetReleased ==
    /\ customVolSnapshotsPruneRunning = HeldIDs
    /\ (\A i \in Invocations : loops[i].pc \in {"idle", "done"}) =>
            customVolSnapshotsPruneRunning = {}

\* two prune invocations have put ids in the running set and have returned, one
\* because its pool failed to load and one because its delete failed
C36_Witness ==
    \E i, j \in Invocations :
        /\ loops[i].pc = "done" /\ loops[i].err = "LoadByName"
        /\ loops[j].pc = "done" /\ loops[j].err = "DeleteCustomVolumeSnapshot"
        /\ loops[i].added # {} /\ loops[j].added # {}
        /\ customVolSnapshotsPruneRunning = {}

(***************************************************************************)
(* Specifications                                                          *)
(***************************************************************************)

\* the state of the recover request while another machine runs
RecoverIdle ==
    /\ userPools = <<>>
    /\ validateOnly = FALSE
    /\ serverClustered = FALSE
    /\ dbPools = {}
    /\ dbRows = {}
    /\ mounted = {}
    /\ pools = <<>>
    /\ ourMounts = <<>>
    /\ poolsProjectVols = <<>>
    /\ res = [UnknownVolumes |-> {}, DependencyErrors |-> {}]
    /\ reverter = <<>>
    /\ driverState = {}
    /\ rec = [pc |-> "idle", i |-> 1, todo |-> {}, pool |-> "", project |-> "",
              idx |-> 0, step |-> "", sidx |-> 0]
    /\ response = "none"
    /\ hist = <<>>

InitRecover == RecoverInit /\ VolumesIdle /\ NamesIdle /\ SchedIdle /\ UpdateIdle /\ CreateIdle /\ LoopsIdle

SpecRecover == InitRecover /\ [][RecoverNext]_vars

InitVolumes == VolumesInit /\ RecoverIdle /\ NamesIdle /\ SchedIdle /\ UpdateIdle /\ CreateIdle /\ LoopsIdle

SpecVolumes == InitVolumes /\ [][VolumesNext]_vars

InitNames == NamesInit /\ RecoverIdle /\ VolumesIdle /\ SchedIdle /\ UpdateIdle /\ CreateIdle /\ LoopsIdle

SpecNames == InitNames /\ [][NamesNext]_vars

InitSched == SchedInit /\ RecoverIdle /\ VolumesIdle /\ NamesIdle /\ UpdateIdle /\ CreateIdle /\ LoopsIdle

SpecSched == InitSched /\ [][SchedNext]_vars

InitUpdate == UpdateInit /\ RecoverIdle /\ VolumesIdle /\ NamesIdle /\ SchedIdle /\ CreateIdle /\ LoopsIdle

SpecUpdate == InitUpdate /\ [][UpdateNext]_vars

InitCreate ==
    /\ CreateInit /\ RecoverIdle /\ VolumesIdle /\ NamesIdle /\ SchedIdle
    /\ UpdateIdle /\ LoopsIdle

SpecCreate == InitCreate /\ [][CreateNext]_vars

InitLoops ==
    /\ LoopsInit /\ RecoverIdle /\ VolumesIdle /\ NamesIdle /\ SchedIdle
    /\ UpdateIdle /\ CreateIdle

SpecLoops == InitLoops /\ [][LoopsNext]_vars

====
